---- MODULE Spec2Model ----
(***************************************************************************)
(* A model of the request-path runtime of github-copilot-svcs:             *)
(*   - CoalescingCache.CoalesceRequest and the /v1/models handler          *)
(*     (proxy.go, main.go),                                                *)
(*   - the CircuitBreaker and the /v1/chat/completions handler with its    *)
(*     worker job (proxy.go),                                              *)
(*   - the WorkerPool on its own, with Server.Stop (proxy.go,              *)
(*     internal/server.go),                                                *)
(*   - one chat request in detail: body limit, token check, retry loop,    *)
(*     request context (proxy.go).                                         *)
(* Every goroutine is a process with a program counter; one action is one  *)
(* atomic step of the code (a critical section, a channel operation, an    *)
(* upstream call).                                                         *)
(***************************************************************************)
EXTENDS Integers, Sequences, FiniteSets, TLC

(***************************************************************************)
(* Bounds of the model.                                                    *)
(***************************************************************************)
\* number of goroutines calling CoalesceRequest (each calls once)
NumCallers == 3
\* number of concurrent chat requests (each slot is reused after it ends)
NumRequests == 2
\* recovery timeout of the breaker in clock ticks (cfg.Timeouts.CircuitBreaker)
BreakerTimeout == 1
\* onFailure is not taken above this count (failureCount is an int64)
MaxFailureCount == 6
\* worker goroutines of the pool
Workers == 1
\* number of jobs handed to Submit in the model of the pool on its own
NumJobs == 4
\* the limit given to http.MaxBytesReader, in units of the model (the
\* program's limit is 5*1024*1024 bytes); bodies are up to one unit longer
BodyLimit == 2
\* callers of ensureValidToken
NumTokenCallers == 2
\* the clock at the start, in seconds
StartTime == 1000
\* failures of exchanges, device flows and file writes in one run
MaxFaults == 3
\* timeout fields of the stored file written by hand
MaxEdited == 2
\* bytes in a method, a URL or a body of the fingerprint
MaxKeyLen == 1
\* units of 512 bytes in an upstream body
MaxStream == 4

(***************************************************************************)
(* Program constants.                                                      *)
(***************************************************************************)
maxChatRetries == 3
circuitBreakerFailureThreshold == 5
StatusOK == 200
StatusTooManyRequests == 429
StatusServiceUnavailable == 503
StatusInternalServerError == 500
StatusRequestTimeout == 408
StatusUnauthorized == 401
\* auth.go: const maxRefreshRetries, baseRetryDelay (seconds)
maxRefreshRetries == 3
baseRetryDelay == 2
\* auth.go: pollForGitHubToken, the bound of the loop
maxPolls == 120

CircuitClosed == "Closed"
CircuitOpen == "Open"
CircuitHalfOpen == "HalfOpen"

Callers == 1..NumCallers
Requests == 1..NumRequests
PoolWorkers == 1..Workers
Jobs == 1..NumJobs
NoJob == 0
TokenCallers == 1..NumTokenCallers

\* the fingerprint of GET /v1/models and one other fingerprint
ModelsKey == "GET/v1/models"
OtherKey == "other"
Keys == {ModelsKey, OtherKey}
NoKey == "none"
NoChan == 0
NoHolder == 0

\* interface{} values, compared by identity: the value made by the fn of
\* caller id, a ModelList made by fetch number id, or the nil interface
Nil == [kind |-> "nil", id |-> 0]
FnValue(c) == [kind |-> "val", id |-> c]
DevList(n) == [kind |-> "dev", id |-> n]
DefaultList(n) == [kind |-> "default", id |-> n]

VARIABLES
    \* ---- CoalescingCache and models cache ----
    requests,       \* cc.requests: key -> channel (NoChan: no entry)
    chanBuf,        \* buffer of the channel made by each producer (cap 1)
    chanClosed,     \* whether that channel is closed
    cpc,            \* position of each CoalesceRequest caller
    ckey,           \* the key each caller passed
    cch,            \* the channel a caller found (waiter) or made (producer)
    fnResult,       \* what the caller's fn returned (producers)
    ret,            \* what CoalesceRequest returned to the caller
    cachedModels,   \* main.go cachedModels
    modelsLoaded,   \* main.go modelsLoaded
    modelsMutex,    \* holder of the write lock of modelsMutex
    fetchCount,     \* number of calls of fetchModelsFromModelsDev so far
    \* ---- CircuitBreaker, worker pool and chat requests ----
    state,          \* cb.state
    failureCount,   \* cb.failureCount
    sinceFailure,   \* time.Since(cb.lastFailureTime) in clock ticks, counted
                    \* no further than LongAgo
    jobQueue,       \* wp.jobQueue: the submitted jobs not yet taken
    hpc,            \* position of the handler goroutine of each request
    jpc,            \* position of the worker job of each request
    canExec,        \* what canExecute returned for the request
    status,         \* status written to the client (0: none yet)
    headersSent,    \* respWrapper.headersSent
    jobErr,         \* whether processProxyRequest returned an error
    attempt,        \* makeRequestWithRetry: completed turns of its loop
    final,          \* what makeRequestWithRetry returned to the running
                    \* job: a status, or 0 for an error
    \* ---- WorkerPool on its own, Server.Stop ----
    quit,           \* whether wp.quit is closed
    poolQueue,      \* wp.jobQueue
    wpc,            \* position of each worker goroutine
    wjob,           \* the job a worker is running
    jst,            \* where each job is
    runs,           \* how many times a worker has started each job
    lateSubmit,     \* whether Submit was called for the job after Stop returned
    duringStop,     \* whether the job was dequeued after close(wp.quit)
    stopPc,         \* position of the caller of WorkerPool.Stop
    srvStep,        \* Server.Stop: 0 not called, i the i-th step is next
    shutdownCalled, \* whether httpServer.Shutdown has been called
    \* ---- one chat request in detail ----
    qBody,          \* length of the request body (NoBody: no request yet)
    qhpc,           \* position of the handler
    qjpc,           \* position of the job
    qCtxDone,       \* whether ctx (the proxy context) is done
    qAttempt,       \* makeRequestWithRetry: attempt
    qOutcomes,      \* outcomes of the upstream calls made so far, in order
    qForwarded,     \* length of the body sent upstream (NoBody: none sent)
    qResp,          \* what makeRequestWithRetry returned (NoOutcome: not yet)
    qErr,           \* the error processProxyRequest returned (NoError: nil)
    qHeadersSent,   \* respWrapper.headersSent
    qStatus,        \* the statuses written to the underlying writer
    qNotes,         \* the calls made on the circuit breaker, in order
    \* the token manager
    tLoaded,        \* loadConfig has run
    tNow,           \* time.Now().Unix()
    cfgTok,         \* cfg.CopilotToken (EmptyToken: "")
    cfgGh,          \* cfg.GitHubToken != ""
    cfgExp,         \* cfg.ExpiresAt
    cfgRin,         \* cfg.RefreshIn
    saved,          \* the token state in the configuration file
    tokenMu,        \* the caller that holds tokenMu (NoHolder: free)
    issued,         \* the last token the token endpoint issued
    tpc,            \* position of each caller of ensureValidToken
    tAttempt,       \* refreshToken: attempt
    tret,           \* what ensureValidToken returned ("none": not yet)
    tseen,          \* cfg.CopilotToken as the caller read it for its request
    dirty,          \* the call has changed a token field
    tsleeps,        \* the sleeps of refreshToken, in order, in seconds
    texch,          \* exchanges refreshToken has sent
    tInstalled,     \* the last token the call has installed
    tFaults,        \* failed exchanges, device flows and writes so far
    tBefore,        \* the token fields when authenticate was last entered
    \* the auth service
    sLoaded,        \* the configuration is loaded
    sNow,           \* time.Now().Unix()
    sTok,           \* cfg.CopilotToken (EmptyToken: "")
    sGh,            \* cfg.GitHubToken != ""
    sExp,           \* cfg.ExpiresAt
    sRin,           \* cfg.RefreshIn
    sSaved,         \* the token state in the configuration file
    sCfg0,          \* the token state at the call
    sOp,            \* the method called ("none": not yet)
    spc,            \* position of the call
    sCtx,           \* ctx is cancelled
    sCtxAtCall,     \* ctx was cancelled already at the call
    sTimer,         \* time.After(waitTime) has fired
    sAttempt,       \* RefreshTokenWithContext: attempt
    sRet,           \* what the call returned ("none": not yet)
    sExch,          \* exchanges sent
    sWaits,         \* the waits that ran to their end, in seconds
    \* the polling loop of the device flow
    pollI,          \* pollForGitHubToken: i
    ppc,            \* position: "sleep", "post" (request in flight), "done"
    pPolls,         \* requests sent
    pAnswer,        \* the last answer ("none": none yet)
    pRet,           \* what the loop returned ("none": not yet)
    \* the configuration store
    cFile,          \* the stored file
    cMem,           \* the configuration in memory
    cOrig,          \* the configuration that was saved
    cfgpc,          \* "start", "edited", "damaged", "chosen", "saved", "loaded"
    cEdits,         \* fields of the file written by hand
    cErr,           \* loadConfig returned an error
    \* the relay of the upstream body
    rpc,            \* "idle", "read", "write", "done"
    rCT,            \* Content-Type of the upstream response
    rUnderFlush,    \* the writer under the wrapper is an http.Flusher
    rMode,          \* "chunked", "copy" (io.Copy), "copyBuffer"
    rLeft,          \* units of the upstream body not yet read
    rBuf,           \* units read and not yet written
    rLog,           \* writes and flushes on the client writer, in order
    \* the request fingerprint
    kpc,            \* "none", "one", "two": keys computed
    kFirst,         \* <<method, url, body>> of the first request
    kSecond,        \* <<method, url, body>> of the second request
    key1,           \* the key of the first request
    key2,           \* the key of the second request
    \* the chat handler around the pool
    hWatch,         \* the job whose handler is watched (NoJob: none yet)
    hRet            \* how the watched handler returned ("none": not yet)

coalesceVars == <<requests, chanBuf, chanClosed, cpc, ckey, cch, fnResult, ret,
                  cachedModels, modelsLoaded, modelsMutex, fetchCount>>
breakerVars == <<state, failureCount, sinceFailure>>
chatVars == <<jobQueue, hpc, jpc, canExec, status, headersSent, jobErr, final, attempt>>
poolVars == <<quit, poolQueue, wpc, wjob, jst, runs, lateSubmit, duringStop,
              stopPc, srvStep, shutdownCalled>>
requestVars == <<qBody, qhpc, qjpc, qCtxDone, qAttempt, qOutcomes, qForwarded,
                 qResp, qErr, qHeadersSent, qStatus, qNotes>>
tokenVars == <<tLoaded, tNow, cfgTok, cfgGh, cfgExp, cfgRin, saved, tokenMu,
               issued, tpc, tAttempt, tret, tseen, dirty, tsleeps, texch,
               tInstalled, tFaults, tBefore>>
\* the state outside the request path
serviceVars == <<sLoaded, sNow, sTok, sGh, sExp, sRin, sSaved, sCfg0, sOp, spc,
                 sCtx, sCtxAtCall, sTimer, sAttempt, sRet, sExch, sWaits>>
pollVars == <<pollI, ppc, pPolls, pAnswer, pRet>>
configVars == <<cFile, cMem, cOrig, cfgpc, cEdits, cErr>>
\* the state of the parts that follow
relayVars == <<rpc, rCT, rUnderFlush, rMode, rLeft, rBuf, rLog>>
keyVars == <<kpc, kFirst, kSecond, key1, key2>>
handlerVars == <<hWatch, hRet>>
laterVars == <<configVars, relayVars, keyVars, handlerVars>>
authVars == <<tokenVars, serviceVars, pollVars, laterVars>>
vars == <<coalesceVars, breakerVars, chatVars, poolVars, requestVars, authVars>>

(***************************************************************************)
(* CoalescingCache.CoalesceRequest (proxy.go) and modelsHandler (main.go). *)
(*                                                                         *)
(* Positions of a caller:                                                  *)
(*   "idle"      has not called yet                                        *)
(*   "waiting"   found an entry, blocked in  return <-ch                   *)
(*   "fn"        made the entry, its fn is running (a fn other than the    *)
(*               models producer)                                          *)
(*   "mRead"     models producer, before the read-locked cache check       *)
(*   "mLock"     models producer, before modelsMutex.Lock()                *)
(*   "mFetch"    models producer, holds the write lock, before the fetch   *)
(*   "send"      fn has returned, before  ch <- result                     *)
(*   "close"     before close(ch)                                          *)
(*   "cleanup"   before the locked delete(cc.requests, key)                *)
(*   "returned"  CoalesceRequest has returned ret[c]                       *)
(*   "fnPanic"   the goroutine ended in a panic of fn                      *)
(*   "done"      modelsHandler has encoded the list                        *)
(*   "hPanic"    modelsHandler panicked in the type assertion of the result             *)
(***************************************************************************)
InitCoalesce ==
    /\ requests = [k \in Keys |-> NoChan]
    /\ chanBuf = [c \in Callers |-> <<>>]
    /\ chanClosed = [c \in Callers |-> FALSE]
    /\ cpc = [c \in Callers |-> "idle"]
    /\ ckey = [c \in Callers |-> NoKey]
    /\ cch = [c \in Callers |-> NoChan]
    /\ fnResult = [c \in Callers |-> Nil]
    /\ ret = [c \in Callers |-> Nil]
    /\ cachedModels = Nil
    /\ modelsLoaded = FALSE
    /\ modelsMutex = NoHolder
    /\ fetchCount = 0

\* a faulty EntryExists: the lookup never finds the entry
EntryExistsNever(k) == FALSE

\* ch, exists := cc.requests[key]
EntryExists(k) == requests[k] # NoChan

\* where the fn of a producer starts: the models producer for the models
\* fingerprint, any other fn otherwise
FnStart(k) == IF k = ModelsKey THEN "mRead" ELSE "fn"

\* cc.mutex.Lock(); look the key up; wait on the entry found, or insert a new
\* channel; cc.mutex.Unlock()
Enter(c, k) ==
    /\ cpc[c] = "idle"
    /\ ckey' = [ckey EXCEPT ![c] = k]
    /\ IF EntryExists(k)
       THEN /\ cch' = [cch EXCEPT ![c] = requests[k]]
            /\ cpc' = [cpc EXCEPT ![c] = "waiting"]
            /\ UNCHANGED requests
       ELSE /\ cch' = [cch EXCEPT ![c] = c]
            /\ requests' = [requests EXCEPT ![k] = c]
            /\ cpc' = [cpc EXCEPT ![c] = FnStart(k)]
    /\ UNCHANGED <<chanBuf, chanClosed, fnResult, ret, cachedModels,
                   modelsLoaded, modelsMutex, fetchCount>>

\* whether  <-ch  can proceed: a buffered value, or a closed channel
CanReceive(ch) == Len(chanBuf[ch]) > 0 \/ chanClosed[ch]

\* the value  <-ch  yields: the buffered value, or the zero value (nil
\* interface) of a closed and drained channel
Received(ch) == IF Len(chanBuf[ch]) > 0 THEN Head(chanBuf[ch]) ELSE Nil

\* return <-ch
Receive(c) ==
    /\ cpc[c] = "waiting"
    /\ CanReceive(cch[c])
    /\ ret' = [ret EXCEPT ![c] = Received(cch[c])]
    /\ chanBuf' = [chanBuf EXCEPT ![cch[c]] =
                     IF Len(@) > 0 THEN Tail(@) ELSE @]
    /\ cpc' = [cpc EXCEPT ![c] = "returned"]
    /\ UNCHANGED <<requests, chanClosed, ckey, cch, fnResult, cachedModels,
                   modelsLoaded, modelsMutex, fetchCount>>

\* result := fn()   for a fn that returns a value (a failure result is a
\* value like any other)
FnReturn(c) ==
    /\ cpc[c] = "fn"
    /\ fnResult' = [fnResult EXCEPT ![c] = FnValue(c)]
    /\ cpc' = [cpc EXCEPT ![c] = "send"]
    /\ UNCHANGED <<requests, chanBuf, chanClosed, ckey, cch, ret, cachedModels,
                   modelsLoaded, modelsMutex, fetchCount>>

\* result := fn()   for a fn that panics: CoalesceRequest has no defer, the
\* panic unwinds through it and nothing after the call runs
FnPanic(c) ==
    /\ cpc[c] = "fn"
    /\ cpc' = [cpc EXCEPT ![c] = "fnPanic"]
    /\ UNCHANGED <<requests, chanBuf, chanClosed, ckey, cch, fnResult, ret,
                   cachedModels, modelsLoaded, modelsMutex, fetchCount>>

\* modelsLoaded && cachedModels != nil
CacheHit == modelsLoaded /\ cachedModels # Nil

\* models producer: modelsMutex.RLock(); cache check; RUnlock()
ModelsRead(c) ==
    /\ cpc[c] = "mRead"
    /\ modelsMutex = NoHolder
    /\ IF CacheHit
       THEN /\ fnResult' = [fnResult EXCEPT ![c] = cachedModels]
            /\ cpc' = [cpc EXCEPT ![c] = "send"]
       ELSE /\ cpc' = [cpc EXCEPT ![c] = "mLock"]
            /\ UNCHANGED fnResult
    /\ UNCHANGED <<requests, chanBuf, chanClosed, ckey, cch, ret, cachedModels,
                   modelsLoaded, modelsMutex, fetchCount>>

\* models producer: modelsMutex.Lock(); double-check (returning unlocks)
ModelsLock(c) ==
    /\ cpc[c] = "mLock"
    /\ modelsMutex = NoHolder
    /\ IF CacheHit
       THEN /\ fnResult' = [fnResult EXCEPT ![c] = cachedModels]
            /\ cpc' = [cpc EXCEPT ![c] = "send"]
            /\ UNCHANGED modelsMutex
       ELSE /\ modelsMutex' = c
            /\ cpc' = [cpc EXCEPT ![c] = "mFetch"]
            /\ UNCHANGED fnResult
    /\ UNCHANGED <<requests, chanBuf, chanClosed, ckey, cch, ret, cachedModels,
                   modelsLoaded, fetchCount>>

\* the list the producer ends up with: the one fetched from models.dev, or the
\* hardcoded default catalog when the fetch failed
FetchedList(ok, n) == IF ok THEN DevList(n) ELSE DefaultList(n)

\* models producer: fetchModelsFromModelsDev(), fallback, cache the list,
\* deferred Unlock, return the list
ModelsFetch(c, ok) ==
    /\ cpc[c] = "mFetch"
    /\ modelsMutex = c
    /\ fetchCount' = fetchCount + 1
    /\ cachedModels' = FetchedList(ok, fetchCount + 1)
    /\ modelsLoaded' = TRUE
    /\ modelsMutex' = NoHolder
    /\ fnResult' = [fnResult EXCEPT ![c] = FetchedList(ok, fetchCount + 1)]
    /\ cpc' = [cpc EXCEPT ![c] = "send"]
    /\ UNCHANGED <<requests, chanBuf, chanClosed, ckey, cch, ret>>

\* ch <- result   (the buffer of 1 is empty: the producer is the only sender)
Send(c) ==
    /\ cpc[c] = "send"
    /\ Len(chanBuf[c]) < 1
    /\ chanBuf' = [chanBuf EXCEPT ![c] = Append(@, fnResult[c])]
    /\ cpc' = [cpc EXCEPT ![c] = "close"]
    /\ UNCHANGED <<requests, chanClosed, ckey, cch, fnResult, ret, cachedModels,
                   modelsLoaded, modelsMutex, fetchCount>>

\* close(ch)
Close(c) ==
    /\ cpc[c] = "close"
    /\ chanClosed' = [chanClosed EXCEPT ![c] = TRUE]
    /\ cpc' = [cpc EXCEPT ![c] = "cleanup"]
    /\ UNCHANGED <<requests, chanBuf, ckey, cch, fnResult, ret, cachedModels,
                   modelsLoaded, modelsMutex, fetchCount>>

\* cc.mutex.Lock(); delete(cc.requests, key); cc.mutex.Unlock(); return result
Cleanup(c) ==
    /\ cpc[c] = "cleanup"
    /\ requests' = [requests EXCEPT ![ckey[c]] = NoChan]
    /\ ret' = [ret EXCEPT ![c] = fnResult[c]]
    /\ cpc' = [cpc EXCEPT ![c] = "returned"]
    /\ UNCHANGED <<chanBuf, chanClosed, ckey, cch, fnResult, cachedModels,
                   modelsLoaded, modelsMutex, fetchCount>>

\* modelsHandler after CoalesceRequest: modelList := the type assertion of the result
\* panics on the nil interface; otherwise the list is encoded
ModelsRespond(c) ==
    /\ cpc[c] = "returned"
    /\ ckey[c] = ModelsKey
    /\ cpc' = [cpc EXCEPT ![c] = IF ret[c] = Nil THEN "hPanic" ELSE "done"]
    /\ UNCHANGED <<requests, chanBuf, chanClosed, ckey, cch, fnResult, ret,
                   cachedModels, modelsLoaded, modelsMutex, fetchCount>>

NextCoalesce ==
    \/ \E c \in Callers, k \in Keys : Enter(c, k)
    \/ \E c \in Callers : Receive(c)
    \/ \E c \in Callers : FnReturn(c)
    \/ \E c \in Callers : FnPanic(c)
    \/ \E c \in Callers : ModelsRead(c)
    \/ \E c \in Callers : ModelsLock(c)
    \/ \E c \in Callers, ok \in BOOLEAN : ModelsFetch(c, ok)
    \/ \E c \in Callers : Send(c)
    \/ \E c \in Callers : Close(c)
    \/ \E c \in Callers : Cleanup(c)
    \/ \E c \in Callers : ModelsRespond(c)

(***************************************************************************)
(* CircuitBreaker (proxy.go).  canExecute holds the read lock while it     *)
(* looks at the state; to move Open -> HalfOpen it releases the read lock  *)
(* and then takes the write lock, so other calls can run in between: the   *)
(* look is one step (CanExecuteRead) and the write another                 *)
(* (CanExecuteUpgrade).  onSuccess and onFailure run under the write lock  *)
(* and are one step each.                                                  *)
(***************************************************************************)
\* cb.timeout is only ever compared with time.Since(cb.lastFailureTime), so
\* the model keeps that difference instead of the two instants; the clock
\* stops counting it at LongAgo, from where on the comparison cannot change.
\* lastFailureTime starts as the zero time, which is long ago.
LongAgo == BreakerTimeout + 1

InitBreaker ==
    /\ state = CircuitClosed
    /\ failureCount = 0
    /\ sinceFailure = LongAgo

\* time.Since(cb.lastFailureTime) > cb.timeout
RecoveryElapsed == sinceFailure > BreakerTimeout

\* a faulty CanExecuteDecision: an Open breaker admits without waiting for
\* the recovery timeout
CanExecuteDecisionNoWait ==
    IF state = CircuitOpen THEN "upgrade" ELSE "true"

\* what the read-locked part of canExecute decides: "true", "false", or
\* "upgrade" when it goes on to write HalfOpen
CanExecuteDecision ==
    IF state = CircuitClosed THEN "true"
    ELSE IF state = CircuitOpen
         THEN (IF RecoveryElapsed THEN "upgrade" ELSE "false")
         ELSE "true"

\* cb.mutex.Lock(); cb.state = CircuitHalfOpen; cb.mutex.Unlock()
HalfOpenWrite ==
    /\ state' = CircuitHalfOpen
    /\ UNCHANGED <<failureCount, sinceFailure>>

\* onSuccess
onSuccess ==
    /\ failureCount' = 0
    /\ state' = CircuitClosed
    /\ UNCHANGED sinceFailure

\* a faulty ThresholdReached: > in place of >=
ThresholdReachedLate(n) == n > circuitBreakerFailureThreshold

\* cb.failureCount >= circuitBreakerFailureThreshold
ThresholdReached(n) == n >= circuitBreakerFailureThreshold

\* onFailure
onFailure ==
    /\ failureCount < MaxFailureCount
    /\ failureCount' = failureCount + 1
    /\ sinceFailure' = 0
    /\ state' = IF ThresholdReached(failureCount + 1) THEN CircuitOpen ELSE state

\* time passes
Tick ==
    /\ sinceFailure < LongAgo
    /\ sinceFailure' = sinceFailure + 1
    /\ UNCHANGED <<state, failureCount>>

(***************************************************************************)
(* proxyHandler, the worker pool and processProxyRequest (proxy.go).       *)
(*                                                                         *)
(* Positions of the handler goroutine of a request:                        *)
(*   "idle"      no request in this slot                                   *)
(*   "gate"      before circuitBreaker.canExecute()                        *)
(*   "upgrade"   inside canExecute, between RUnlock and Lock               *)
(*   "submit"    before globalWorkerPool.Submit(job)                       *)
(*   "wait"      in the select on done and ctx.Done()                      *)
(*   "returned"  the handler has returned                                  *)
(* Positions of its job:                                                   *)
(*   "none"      not submitted                                             *)
(*   "queued"    in wp.jobQueue                                            *)
(*   "token"     running, before ensureValidToken                          *)
(*   "body"      before io.ReadAll(r.Body)                                 *)
(*   "attempt"   in makeRequestWithRetry, before client.Do                 *)
(*   "notify"    makeRequestWithRetry has returned, before the breaker     *)
(*               is told                                                   *)
(*   "relay"     before w.WriteHeader(resp.StatusCode)                     *)
(*   "copy"      copying the response body                                 *)
(*   "finished"  the job has sent its result on done                       *)
(***************************************************************************)
NoOutcome == -1
TransportError == 0
\* what one client.Do can end in: a transport error, a status that is not
\* retried, a status that is retried and counts as a failure of the breaker
UpstreamOutcomes == {TransportError, StatusOK, StatusServiceUnavailable}

\* make(chan func(), workers*2)
QueueCapacity == Workers * 2

InitChat ==
    /\ jobQueue = <<>>
    /\ hpc = [r \in Requests |-> "idle"]
    /\ jpc = [r \in Requests |-> "none"]
    /\ canExec = [r \in Requests |-> "none"]
    /\ status = [r \in Requests |-> <<>>]
    /\ headersSent = [r \in Requests |-> FALSE]
    /\ jobErr = [r \in Requests |-> FALSE]
    /\ final = [r \in Requests |-> NoOutcome]
    /\ attempt = [r \in Requests |-> 0]

\* a request arrives: ctx, cancel := context.WithTimeout(...)
Arrive(r) ==
    /\ hpc[r] = "idle"
    /\ hpc' = [hpc EXCEPT ![r] = "gate"]
    /\ UNCHANGED <<jobQueue, jpc, canExec, status, headersSent, jobErr, final, attempt>>
    /\ UNCHANGED breakerVars

\* a faulty GateNext: the return after the 503 is missing
GateNextFallsThrough(admit) == "submit"

\* if !circuitBreaker.canExecute() { http.Error(w, ..., 503); return }
\* where the handler goes with the result of canExecute
GateNext(admit) == IF admit THEN "submit" ELSE "returned"

\* the handler's call of canExecute, up to the end of its read-locked part
CanExecuteRead(r) ==
    /\ hpc[r] = "gate"
    /\ CASE CanExecuteDecision = "true" ->
              /\ canExec' = [canExec EXCEPT ![r] = "true"]
              /\ hpc' = [hpc EXCEPT ![r] = GateNext(TRUE)]
              /\ UNCHANGED status
         [] CanExecuteDecision = "false" ->
              /\ canExec' = [canExec EXCEPT ![r] = "false"]
              /\ hpc' = [hpc EXCEPT ![r] = GateNext(FALSE)]
              /\ status' = [status EXCEPT ![r] =
                              Append(@, StatusServiceUnavailable)]
         [] CanExecuteDecision = "upgrade" ->
              /\ hpc' = [hpc EXCEPT ![r] = "upgrade"]
              /\ UNCHANGED <<canExec, status>>
    /\ UNCHANGED <<jobQueue, jpc, headersSent, jobErr, final, attempt>>
    /\ UNCHANGED breakerVars

\* the rest of canExecute on the Open -> HalfOpen path: write HalfOpen under
\* the write lock and return true
CanExecuteUpgrade(r) ==
    /\ hpc[r] = "upgrade"
    /\ HalfOpenWrite
    /\ canExec' = [canExec EXCEPT ![r] = "true"]
    /\ hpc' = [hpc EXCEPT ![r] = GateNext(TRUE)]
    /\ UNCHANGED <<jobQueue, jpc, status, headersSent, jobErr,
                   final, attempt>>

\* globalWorkerPool.Submit(job): wp.jobQueue <- job, blocking while it is full
Submit(r) ==
    /\ hpc[r] = "submit"
    /\ Len(jobQueue) < QueueCapacity
    /\ jobQueue' = Append(jobQueue, r)
    /\ jpc' = [jpc EXCEPT ![r] = "queued"]
    /\ hpc' = [hpc EXCEPT ![r] = "wait"]
    /\ UNCHANGED <<canExec, status, headersSent, jobErr, final, attempt>>
    /\ UNCHANGED breakerVars

\* the jobs a worker is running
RunningJobs == {r \in Requests :
                  jpc[r] \in {"token", "body", "attempt", "notify", "relay", "copy"}}

\* a free worker takes the next job:  case job := <-wp.jobQueue: job()
WorkerTake ==
    /\ Len(jobQueue) > 0
    /\ Cardinality(RunningJobs) < Workers
    /\ jpc' = [jpc EXCEPT ![Head(jobQueue)] = "token"]
    /\ jobQueue' = Tail(jobQueue)
    /\ UNCHANGED <<hpc, canExec, status, headersSent, jobErr,
                   final, attempt>>
    /\ UNCHANGED breakerVars

\* if err := ensureValidToken(cfg); err != nil { return "authentication required" }
EnsureToken(r, ok) ==
    /\ jpc[r] = "token"
    /\ jpc' = [jpc EXCEPT ![r] = IF ok THEN "body" ELSE "finished"]
    /\ jobErr' = [jobErr EXCEPT ![r] = ~ok]
    /\ UNCHANGED <<jobQueue, hpc, canExec, status, headersSent,
                   final, attempt>>
    /\ UNCHANGED breakerVars

\* body, err := io.ReadAll(r.Body); an error ends the job
ReadBody(r, ok) ==
    /\ jpc[r] = "body"
    /\ jpc' = [jpc EXCEPT ![r] = IF ok THEN "attempt" ELSE "finished"]
    /\ jobErr' = [jobErr EXCEPT ![r] = ~ok]
    /\ UNCHANGED <<jobQueue, hpc, canExec, status, headersSent,
                   final, attempt>>
    /\ UNCHANGED breakerVars

\* a faulty isRetriableError: only server errors are retried
isRetriableErrorServerOnly(outcome) == outcome >= 500

\* isRetriableError(statusCode, err)
isRetriableError(outcome) ==
    \/ outcome = TransportError
    \/ outcome >= 500
    \/ outcome = StatusTooManyRequests
    \/ outcome = StatusRequestTimeout

\* one turn of the loop of makeRequestWithRetry: client.Do, then return the
\* outcome or go round again
Attempt(r, outcome) ==
    /\ jpc[r] = "attempt"
    /\ IF isRetriableError(outcome) /\ attempt[r] + 1 < maxChatRetries
       THEN /\ attempt' = [attempt EXCEPT ![r] = @ + 1]
            /\ UNCHANGED <<jpc, final>>
       ELSE /\ attempt' = [attempt EXCEPT ![r] = 0]
            /\ final' = [final EXCEPT ![r] = outcome]
            /\ jpc' = [jpc EXCEPT ![r] = "notify"]
    /\ UNCHANGED <<jobQueue, hpc, canExec, status, headersSent, jobErr>>
    /\ UNCHANGED breakerVars

\* a faulty CountsAsSuccess: the client errors 429 and 408 count as failures
CountsAsSuccessBelow400(outcome) == outcome # TransportError /\ outcome < 400

\* whether processProxyRequest reports the outcome of makeRequestWithRetry to
\* the breaker as a success: no error and resp.StatusCode < 500
CountsAsSuccess(outcome) == outcome # TransportError /\ outcome < 500

\* processProxyRequest after makeRequestWithRetry: onFailure and return on an
\* error; otherwise onSuccess or onFailure by the status and go on to relay
Notify(r) ==
    /\ jpc[r] = "notify"
    /\ IF CountsAsSuccess(final[r]) THEN onSuccess ELSE onFailure
    /\ IF final[r] = TransportError
       THEN /\ jpc' = [jpc EXCEPT ![r] = "finished"]
            /\ jobErr' = [jobErr EXCEPT ![r] = TRUE]
            /\ final' = [final EXCEPT ![r] = NoOutcome]
       ELSE /\ jpc' = [jpc EXCEPT ![r] = "relay"]
            /\ UNCHANGED <<jobErr, final>>
    /\ UNCHANGED <<jobQueue, hpc, canExec, status, headersSent, attempt>>

\* w.WriteHeader(resp.StatusCode) through the responseWrapper
Relay(r) ==
    /\ jpc[r] = "relay"
    /\ IF ~headersSent[r]
       THEN /\ headersSent' = [headersSent EXCEPT ![r] = TRUE]
            /\ status' = [status EXCEPT ![r] = Append(@, final[r])]
       ELSE UNCHANGED <<headersSent, status>>
    /\ jpc' = [jpc EXCEPT ![r] = "copy"]
    /\ UNCHANGED <<jobQueue, hpc, canExec, jobErr, final, attempt>>
    /\ UNCHANGED breakerVars

\* the copy of the response body ends, with or without an error; done <- err
CopyBody(r, ok) ==
    /\ jpc[r] = "copy"
    /\ jpc' = [jpc EXCEPT ![r] = "finished"]
    /\ jobErr' = [jobErr EXCEPT ![r] = ~ok]
    /\ final' = [final EXCEPT ![r] = NoOutcome]
    /\ UNCHANGED <<jobQueue, hpc, canExec, status, headersSent, attempt>>
    /\ UNCHANGED breakerVars

\* case err := <-done: write a 500 if the job failed and no header was sent
HandlerDone(r) ==
    /\ hpc[r] = "wait"
    /\ jpc[r] = "finished"
    /\ status' = [status EXCEPT ![r] =
                    IF jobErr[r] /\ ~headersSent[r]
                    THEN Append(@, StatusInternalServerError) ELSE @]
    /\ hpc' = [hpc EXCEPT ![r] = "returned"]
    /\ UNCHANGED <<jobQueue, jpc, canExec, headersSent, jobErr,
                   final, attempt>>
    /\ UNCHANGED breakerVars

\* the values the handler's read of respWrapper.headersSent can give in the
\* ctx.Done() branch.  Nothing orders that read after the worker's writes of
\* the field (no lock, no channel operation in between), so once the worker
\* has set it the handler can still read the value from before.
HeadersSentRead(r) == IF headersSent[r] THEN {TRUE, FALSE} ELSE {FALSE}

\* case <-ctx.Done(): the proxy context expires (or the client goes away)
\* while the handler waits; write a 408 with http.Error(w, ...), straight to
\* the underlying writer, if the read of headersSent gave false
HandlerTimeout(r, seen) ==
    /\ hpc[r] = "wait"
    /\ seen \in HeadersSentRead(r)
    /\ status' = [status EXCEPT ![r] =
                    IF ~seen
                    THEN Append(@, StatusRequestTimeout) ELSE @]
    /\ hpc' = [hpc EXCEPT ![r] = "returned"]
    /\ UNCHANGED <<jobQueue, jpc, canExec, headersSent, jobErr,
                   final, attempt>>
    /\ UNCHANGED breakerVars

\* the slot of a request whose handler has returned and whose job, if any,
\* has ended is free for the next request
Recycle(r) ==
    /\ hpc[r] = "returned"
    /\ jpc[r] \in {"none", "finished"}
    /\ hpc' = [hpc EXCEPT ![r] = "idle"]
    /\ jpc' = [jpc EXCEPT ![r] = "none"]
    /\ canExec' = [canExec EXCEPT ![r] = "none"]
    /\ status' = [status EXCEPT ![r] = <<>>]
    /\ headersSent' = [headersSent EXCEPT ![r] = FALSE]
    /\ jobErr' = [jobErr EXCEPT ![r] = FALSE]
    /\ UNCHANGED <<jobQueue, attempt, final>>
    /\ UNCHANGED breakerVars

NextChat ==
    \/ Tick /\ UNCHANGED chatVars
    \/ \E r \in Requests : Arrive(r)
    \/ \E r \in Requests : CanExecuteRead(r)
    \/ \E r \in Requests : CanExecuteUpgrade(r)
    \/ \E r \in Requests : Submit(r)
    \/ WorkerTake
    \/ \E r \in Requests, ok \in BOOLEAN : EnsureToken(r, ok)
    \/ \E r \in Requests, ok \in BOOLEAN : ReadBody(r, ok)
    \/ \E r \in Requests, o \in UpstreamOutcomes : Attempt(r, o)
    \/ \E r \in Requests : Notify(r)
    \/ \E r \in Requests : Relay(r)
    \/ \E r \in Requests, ok \in BOOLEAN : CopyBody(r, ok)
    \/ \E r \in Requests : HandlerDone(r)
    \/ \E r \in Requests : Recycle(r)

\* the other branch of the handler's select
NextChatTimeout ==
    \E r \in Requests, seen \in BOOLEAN : HandlerTimeout(r, seen)

(***************************************************************************)
(* The WorkerPool on its own (proxy.go, internal/server.go: start, Submit  *)
(* and Stop are the same in both) and Server.Stop (internal/server.go).    *)
(*                                                                         *)
(* Where a job is:                                                         *)
(*   "new"      not yet passed to Submit                                   *)
(*   "submit"   Submit was called, blocked in or before  wp.jobQueue <- job*)
(*   "queued"   in wp.jobQueue                                             *)
(*   "running"  a worker is in job()                                       *)
(*   "done"     job() has returned                                         *)
(* Positions of a worker: "select" (in the select of its loop), "job" (in  *)
(* job()), "exited" (returned, wg.Done() has run).                         *)
(* Positions of the caller of Stop: "none", "wait" (quit is closed, in     *)
(* wg.Wait()), "returned".                                                 *)
(***************************************************************************)
InitPool ==
    /\ quit = FALSE
    /\ poolQueue = <<>>
    /\ wpc = [w \in PoolWorkers |-> "select"]
    /\ wjob = [w \in PoolWorkers |-> NoJob]
    /\ jst = [j \in Jobs |-> "new"]
    /\ runs = [j \in Jobs |-> 0]
    /\ lateSubmit = [j \in Jobs |-> FALSE]
    /\ duringStop = [j \in Jobs |-> FALSE]
    /\ stopPc = "none"
    /\ srvStep = 0
    /\ shutdownCalled = FALSE

\* a faulty HasRoom: a send on a full channel goes through
HasRoomAlways(q) == TRUE

\* whether a send on wp.jobQueue, made with capacity workers*2, can proceed
HasRoom(q) == Len(q) < QueueCapacity

\* a caller enters wp.Submit(job); the jobs are numbered in the order of
\* these calls
SubmitCall(j) ==
    /\ jst[j] = "new"
    /\ \A i \in Jobs : i < j => jst[i] # "new"
    /\ jst' = [jst EXCEPT ![j] = "submit"]
    /\ lateSubmit' = [lateSubmit EXCEPT ![j] = (stopPc = "returned")]
    /\ UNCHANGED <<quit, poolQueue, wpc, wjob, runs, duringStop, stopPc,
                   srvStep, shutdownCalled>>

\* wp.jobQueue <- job
SubmitSend(j) ==
    /\ jst[j] = "submit"
    /\ HasRoom(poolQueue)
    /\ poolQueue' = Append(poolQueue, j)
    /\ jst' = [jst EXCEPT ![j] = "queued"]
    /\ UNCHANGED <<quit, wpc, wjob, runs, lateSubmit, duringStop, stopPc,
                   srvStep, shutdownCalled>>

\* case job := <-wp.jobQueue: the worker takes the head of the queue and
\* starts job(); the select may choose this case also when quit is closed
WorkerTakeJob(w) ==
    /\ wpc[w] = "select"
    /\ Len(poolQueue) > 0
    /\ poolQueue' = Tail(poolQueue)
    /\ wpc' = [wpc EXCEPT ![w] = "job"]
    /\ wjob' = [wjob EXCEPT ![w] = Head(poolQueue)]
    /\ jst' = [jst EXCEPT ![Head(poolQueue)] = "running"]
    /\ runs' = [runs EXCEPT ![Head(poolQueue)] = @ + 1]
    /\ duringStop' = [duringStop EXCEPT ![Head(poolQueue)] = quit]
    /\ UNCHANGED <<quit, lateSubmit, stopPc, srvStep, shutdownCalled>>

\* job() returns and the worker is back in its select
JobReturn(w) ==
    /\ wpc[w] = "job"
    /\ jst' = [jst EXCEPT ![wjob[w]] = "done"]
    /\ wpc' = [wpc EXCEPT ![w] = "select"]
    /\ wjob' = [wjob EXCEPT ![w] = NoJob]
    /\ UNCHANGED <<quit, poolQueue, runs, lateSubmit, duringStop, stopPc,
                   srvStep, shutdownCalled>>

\* case <-wp.quit: return, and the deferred wp.wg.Done()
WorkerQuit(w) ==
    /\ wpc[w] = "select"
    /\ quit
    /\ wpc' = [wpc EXCEPT ![w] = "exited"]
    /\ UNCHANGED <<quit, poolQueue, wjob, jst, runs, lateSubmit, duringStop,
                   stopPc, srvStep, shutdownCalled>>

\* a faulty WorkersDone: Stop does not wait for the workers
WorkersDoneNoWait == TRUE

\* what wp.wg.Wait() waits for: every worker has called wg.Done()
WorkersDone == \A w \in PoolWorkers : wpc[w] = "exited"

\* a faulty ServerStopSteps: the HTTP server is shut down first
ServerStopStepsInverted == <<"shutdown", "poolStop">>

\* the steps of Server.Stop in program order: s.workerPool.Stop(), then
\* s.httpServer.Shutdown(ctx)
ServerStopSteps == <<"poolStop", "shutdown">>

\* setupGracefulShutdown: SIGINT or SIGTERM arrives and the goroutine calls
\* s.Stop()
Signal ==
    /\ srvStep = 0
    /\ srvStep' = 1
    /\ UNCHANGED <<quit, poolQueue, wpc, wjob, jst, runs, lateSubmit,
                   duringStop, stopPc, shutdownCalled>>

\* the step of Server.Stop that is next, "none" outside Server.Stop
ServerStopAt ==
    IF srvStep \in 1..Len(ServerStopSteps) THEN ServerStopSteps[srvStep]
    ELSE "none"

\* WorkerPool.Stop: close(wp.quit)
StopClose ==
    /\ ServerStopAt = "poolStop"
    /\ stopPc = "none"
    /\ quit' = TRUE
    /\ stopPc' = "wait"
    /\ UNCHANGED <<poolQueue, wpc, wjob, jst, runs, lateSubmit, duringStop,
                   srvStep, shutdownCalled>>

\* WorkerPool.Stop: wp.wg.Wait() returns, and Stop with it
StopWait ==
    /\ ServerStopAt = "poolStop"
    /\ stopPc = "wait"
    /\ WorkersDone
    /\ stopPc' = "returned"
    /\ srvStep' = srvStep + 1
    /\ UNCHANGED <<quit, poolQueue, wpc, wjob, jst, runs, lateSubmit,
                   duringStop, shutdownCalled>>

\* Server.Stop: s.httpServer.Shutdown(ctx)
Shutdown ==
    /\ ServerStopAt = "shutdown"
    /\ shutdownCalled' = TRUE
    /\ srvStep' = srvStep + 1
    /\ UNCHANGED <<quit, poolQueue, wpc, wjob, jst, runs, lateSubmit,
                   duringStop, stopPc>>

NextPool ==
    \/ \E j \in Jobs : SubmitCall(j)
    \/ \E j \in Jobs : SubmitSend(j)
    \/ \E w \in PoolWorkers : WorkerTakeJob(w)
    \/ \E w \in PoolWorkers : JobReturn(w)
    \/ \E w \in PoolWorkers : WorkerQuit(w)
    \/ Signal
    \/ StopClose
    \/ StopWait
    \/ Shutdown

(***************************************************************************)
(* One chat request in detail (proxy.go: proxyHandler, processProxyRequest,*)
(* makeRequestWithRetry).  The breaker admits the request and a worker     *)
(* takes its job at once; what the model adds to the chat handler above is *)
(* the length of the body, the error the job returns, every upstream call  *)
(* of the retry loop with its outcome, and the request's context.          *)
(*                                                                         *)
(* Positions of the handler: "idle", "wait" (in the select), "returned"    *)
(* (left by the done branch), "timedout" (left by the ctx.Done() branch).  *)
(* Positions of the job: "none", "token", "body", "do" (before client.Do), *)
(* "inflight" (in client.Do), "sleep" (in time.Sleep), "notify", "relay",  *)
(* "copy", "finished" (done <- err).                                       *)
(***************************************************************************)
NoBody == -1
NoError == "nil"
ErrAuthentication == "authentication required"
ErrReadingRequest == "error reading request"
ErrMakingRequest == "error making request"
ErrCopy == "copy error"

\* what the upstream call of one attempt can end in
RequestOutcomes == {TransportError, StatusOK, StatusUnauthorized,
                    StatusRequestTimeout, StatusTooManyRequests,
                    StatusServiceUnavailable}

InitRequest ==
    /\ qBody = NoBody
    /\ qhpc = "idle"
    /\ qjpc = "none"
    /\ qCtxDone = FALSE
    /\ qAttempt = 0
    /\ qOutcomes = <<>>
    /\ qForwarded = NoBody
    /\ qResp = NoOutcome
    /\ qErr = NoError
    /\ qHeadersSent = FALSE
    /\ qStatus = <<>>
    /\ qNotes = <<>>

\* a faulty MaxBytesRead: a body of exactly the limit is refused
MaxBytesReadStrict(len, limit) ==
    IF len < limit THEN [n |-> len, err |-> FALSE]
    ELSE [n |-> limit, err |-> TRUE]

\* io.ReadAll on http.MaxBytesReader(w, r.Body, limit) for a body of len
\* bytes: the bytes read and whether the read ended in an error
MaxBytesRead(len, limit) ==
    IF len <= limit THEN [n |-> len, err |-> FALSE]
    ELSE [n |-> limit, err |-> TRUE]

\* a request with a body of len bytes arrives: the handler makes ctx, is let
\* through by canExecute, wraps the body and the writer, submits the job and
\* waits; a worker takes the job
RequestArrive(len) ==
    /\ qhpc = "idle"
    /\ CanExecuteDecision = "true"
    /\ qBody' = len
    /\ qhpc' = "wait"
    /\ qjpc' = "token"
    /\ UNCHANGED <<qCtxDone, qAttempt, qOutcomes, qForwarded, qResp, qErr,
                   qHeadersSent, qStatus>>
    /\ UNCHANGED <<breakerVars, qNotes>>

\* the proxy timeout expires or the client's context is cancelled
CtxDone ==
    /\ qhpc = "wait"
    /\ ~qCtxDone
    /\ qCtxDone' = TRUE
    /\ UNCHANGED <<qBody, qhpc, qjpc, qAttempt, qOutcomes, qForwarded, qResp,
                   qErr, qHeadersSent, qStatus>>
    /\ UNCHANGED <<breakerVars, qNotes>>

\* if err := ensureValidToken(cfg); err != nil { return "authentication required" }
RequestEnsureToken(ok) ==
    /\ qjpc = "token"
    /\ IF ok THEN qjpc' = "body" /\ UNCHANGED qErr
             ELSE qjpc' = "finished" /\ qErr' = ErrAuthentication
    /\ UNCHANGED <<qBody, qhpc, qCtxDone, qAttempt, qOutcomes, qForwarded,
                   qResp, qHeadersSent, qStatus>>
    /\ UNCHANGED <<breakerVars, qNotes>>

\* body, err := io.ReadAll(r.Body); on success the request is made and
\* makeRequestWithRetry entered with attempt = 1
RequestReadBody ==
    /\ qjpc = "body"
    /\ IF MaxBytesRead(qBody, BodyLimit).err
       THEN qjpc' = "finished" /\ qErr' = ErrReadingRequest /\ UNCHANGED qAttempt
       ELSE qjpc' = "do" /\ qAttempt' = 1 /\ UNCHANGED qErr
    /\ UNCHANGED <<qBody, qhpc, qCtxDone, qOutcomes, qForwarded, qResp,
                   qHeadersSent, qStatus>>
    /\ UNCHANGED <<breakerVars, qNotes>>

\* retryReq, err := http.NewRequest(...); client.Do(retryReq) sends the body
\* that was read.  retryReq carries no context.
RequestDoStart ==
    /\ qjpc = "do"
    /\ qjpc' = "inflight"
    /\ qForwarded' = MaxBytesRead(qBody, BodyLimit).n
    /\ UNCHANGED <<qBody, qhpc, qCtxDone, qAttempt, qOutcomes, qResp, qErr,
                   qHeadersSent, qStatus>>
    /\ UNCHANGED <<breakerVars, qNotes>>

\* client.Do returns: return the outcome, or sleep and go round again
RequestDoEnd(outcome) ==
    /\ qjpc = "inflight"
    /\ qOutcomes' = Append(qOutcomes, outcome)
    /\ IF isRetriableError(outcome) /\ qAttempt # maxChatRetries
       THEN qjpc' = "sleep" /\ UNCHANGED qResp
       ELSE qjpc' = "notify" /\ qResp' = outcome
    /\ UNCHANGED <<qBody, qhpc, qCtxDone, qAttempt, qForwarded, qErr,
                   qHeadersSent, qStatus>>
    /\ UNCHANGED <<breakerVars, qNotes>>

\* time.Sleep(waitTime) returns; the loop goes on with attempt++
RequestSleepEnd ==
    /\ qjpc = "sleep"
    /\ qAttempt' = qAttempt + 1
    /\ qjpc' = "do"
    /\ UNCHANGED <<qBody, qhpc, qCtxDone, qOutcomes, qForwarded, qResp, qErr,
                   qHeadersSent, qStatus>>
    /\ UNCHANGED <<breakerVars, qNotes>>

\* processProxyRequest after makeRequestWithRetry
RequestNotify ==
    /\ qjpc = "notify"
    /\ IF CountsAsSuccess(qResp)
       THEN onSuccess /\ qNotes' = Append(qNotes, "onSuccess")
       ELSE onFailure /\ qNotes' = Append(qNotes, "onFailure")
    /\ IF qResp = TransportError
       THEN qjpc' = "finished" /\ qErr' = ErrMakingRequest
       ELSE qjpc' = "relay" /\ UNCHANGED qErr
    /\ UNCHANGED <<qBody, qhpc, qCtxDone, qAttempt, qOutcomes, qForwarded,
                   qResp, qHeadersSent, qStatus>>

\* w.WriteHeader(resp.StatusCode) through the responseWrapper
RequestRelay ==
    /\ qjpc = "relay"
    /\ IF ~qHeadersSent
       THEN qHeadersSent' = TRUE /\ qStatus' = Append(qStatus, qResp)
       ELSE UNCHANGED <<qHeadersSent, qStatus>>
    /\ qjpc' = "copy"
    /\ UNCHANGED <<qBody, qhpc, qCtxDone, qAttempt, qOutcomes, qForwarded,
                   qResp, qErr>>
    /\ UNCHANGED <<breakerVars, qNotes>>

\* whether the copy of the response body can end without an error: the body
\* of a response that was retriable at the last attempt has been closed by
\* makeRequestWithRetry
CopyCanSucceed == ~isRetriableError(qResp)

\* the copy of the response body ends; done <- err
RequestCopyBody(ok) ==
    /\ qjpc = "copy"
    /\ ok => CopyCanSucceed
    /\ qjpc' = "finished"
    /\ qErr' = IF ok THEN NoError ELSE ErrCopy
    /\ UNCHANGED <<qBody, qhpc, qCtxDone, qAttempt, qOutcomes, qForwarded,
                   qResp, qHeadersSent, qStatus>>
    /\ UNCHANGED <<breakerVars, qNotes>>

\* case err := <-done: write a 500 if the job failed and no header was sent;
\* the deferred cancel() ends ctx
RequestHandlerDone ==
    /\ qhpc = "wait"
    /\ qjpc = "finished"
    /\ qStatus' = IF qErr # NoError /\ ~qHeadersSent
                  THEN Append(qStatus, StatusInternalServerError) ELSE qStatus
    /\ qhpc' = "returned"
    /\ qCtxDone' = TRUE
    /\ UNCHANGED <<qBody, qjpc, qAttempt, qOutcomes, qForwarded, qResp, qErr,
                   qHeadersSent>>
    /\ UNCHANGED <<breakerVars, qNotes>>

\* case <-ctx.Done(): write a 408 if the read of headersSent gave false
RequestHandlerTimeout(seen) ==
    /\ qhpc = "wait"
    /\ qCtxDone
    /\ seen \in (IF qHeadersSent THEN {TRUE, FALSE} ELSE {FALSE})
    /\ qStatus' = IF ~seen THEN Append(qStatus, StatusRequestTimeout)
                  ELSE qStatus
    /\ qhpc' = "timedout"
    /\ UNCHANGED <<qBody, qjpc, qCtxDone, qAttempt, qOutcomes, qForwarded,
                   qResp, qErr, qHeadersSent>>
    /\ UNCHANGED <<breakerVars, qNotes>>

NextRequest ==
    \/ \E len \in 0..(BodyLimit + 1) : RequestArrive(len)
    \/ CtxDone
    \/ \E ok \in BOOLEAN : RequestEnsureToken(ok)
    \/ RequestReadBody
    \/ RequestDoStart
    \/ \E o \in RequestOutcomes : RequestDoEnd(o)
    \/ RequestSleepEnd
    \/ RequestNotify
    \/ RequestRelay
    \/ \E ok \in BOOLEAN : RequestCopyBody(ok)
    \/ RequestHandlerDone
    \/ \E seen \in BOOLEAN : RequestHandlerTimeout(seen)

(***************************************************************************)
(* The token manager of the request path (proxy.go: ensureValidToken;      *)
(* auth.go: authenticate, refreshToken, getCopilotToken; config.go:        *)
(* saveConfig).  LoadConfig sets the token state the process starts with;  *)
(* every caller calls ensureValidToken once.  Time passes in the sleeps of *)
(* refreshToken.  The device flow of authenticate (device code request and *)
(* polling) is one step here; its polling loop has a model of its own      *)
(* below.                                                                  *)
(*                                                                         *)
(* Positions of a caller:                                                  *)
(*   "idle"      has not called                                            *)
(*   "lock"      in tokenMu.Lock()                                         *)
(*   "check"     holds tokenMu, before the checks of ensureValidToken      *)
(*   "refresh"   at the start of refreshToken                              *)
(*   "loop"      at the top of the retry loop, before getCopilotToken      *)
(*   "exchange"  getCopilotToken is in flight                              *)
(*   "sleep"     in time.Sleep(waitTime)                                   *)
(*   "save"      the fields are set, before saveConfig                     *)
(*   "auth"      at the start of authenticate                              *)
(*   "device"    in the device flow                                        *)
(*   "authExchange"  getCopilotToken of authenticate is in flight          *)
(*   "authSave"  the fields are set, before saveConfig                     *)
(*   "returned"  ensureValidToken has returned tret[c]                     *)
(*   "used"      the caller has read cfg.CopilotToken for its request      *)
(***************************************************************************)
EmptyToken == 0
LoadedToken == 1
\* a read of cfg.CopilotToken that raced with a write: the pointer of one
\* string with the length of the other
TornToken == -1
NoFile == [tok |-> EmptyToken, gh |-> FALSE, exp |-> 0, rin |-> 0]

\* seconds the loaded Copilot token has left at the start (ExpiresAt - now)
LoadedLeft == {59, 60, 61, 300, 301, 361, 362}
\* RefreshIn of the loaded configuration
LoadedRefreshIn == {0, 1809}
\* what the token endpoint answers: lifetime from now and refresh_in
ExchangeResponses == {[left |-> 1500, rin |-> 1500],
                      [left |-> 200, rin |-> 1500]}

\* the token state in memory
Cfg == [tok |-> cfgTok, gh |-> cfgGh, exp |-> cfgExp, rin |-> cfgRin]

InitToken ==
    /\ tLoaded = FALSE
    /\ tNow = StartTime
    /\ cfgTok = EmptyToken
    /\ cfgGh = FALSE
    /\ cfgExp = 0
    /\ cfgRin = 0
    /\ saved = NoFile
    /\ tokenMu = NoHolder
    /\ issued = LoadedToken
    /\ tpc = [c \in TokenCallers |-> "idle"]
    /\ tAttempt = [c \in TokenCallers |-> 0]
    /\ tret = [c \in TokenCallers |-> "none"]
    /\ tseen = [c \in TokenCallers |-> EmptyToken]
    /\ dirty = [c \in TokenCallers |-> FALSE]
    /\ tsleeps = [c \in TokenCallers |-> <<>>]
    /\ texch = [c \in TokenCallers |-> 0]
    /\ tInstalled = [c \in TokenCallers |-> EmptyToken]
    /\ tFaults = 0
    /\ tBefore = NoFile

\* loadConfig: the process starts with the token state of the file
LoadConfig(tok, gh, left, rin) ==
    /\ ~tLoaded
    /\ tLoaded' = TRUE
    /\ cfgTok' = tok
    /\ cfgGh' = gh
    /\ cfgExp' = IF tok = EmptyToken THEN 0 ELSE tNow + left
    /\ cfgRin' = IF tok = EmptyToken THEN 0 ELSE rin
    /\ saved' = [tok |-> cfgTok', gh |-> gh, exp |-> cfgExp', rin |-> cfgRin']
    /\ UNCHANGED <<tBefore, tFaults, tInstalled, tNow, tokenMu, issued, tpc, tAttempt,
                   tret, tseen, dirty,
                   tsleeps, texch>>

\* whether tokenMu.Lock() can proceed
TokenMuFree == tokenMu = NoHolder

\* a step that can fail (an exchange, the device flow, a write of the file)
\* succeeds, or fails while the run has failures left
Fault(ok) ==
    /\ ok \/ tFaults < MaxFaults
    /\ tFaults' = IF ok THEN tFaults ELSE tFaults + 1

\* a caller enters ensureValidToken.  The callers are interchangeable, so
\* they enter in the order of their numbers; which of them gets tokenMu is
\* open.
TokenCall(c) ==
    /\ tLoaded
    /\ tpc[c] = "idle"
    /\ \A i \in TokenCallers : i < c => tpc[i] # "idle"
    /\ tpc' = [tpc EXCEPT ![c] = "lock"]
    /\ UNCHANGED <<tBefore, tFaults, tInstalled, tLoaded, tNow, cfgTok, cfgGh, cfgExp,
                   cfgRin, saved,
                   tokenMu, issued, tAttempt, tret, tseen, dirty, tsleeps,
                   texch>>

\* tokenMu.Lock()
TokenLock(c) ==
    /\ tpc[c] = "lock"
    /\ TokenMuFree
    /\ tokenMu' = c
    /\ tpc' = [tpc EXCEPT ![c] = "check"]
    /\ UNCHANGED <<tBefore, tFaults, tInstalled, tLoaded, tNow, cfgTok, cfgGh, cfgExp,
                   cfgRin, saved,
                   issued, tAttempt, tret, tseen, dirty, tsleeps, texch>>

\* a faulty refreshThreshold: the 20% rule is missing
refreshThresholdFloorOnly(rin) == 300

\* refreshThreshold of ensureValidToken: 300, or RefreshIn / 5 when RefreshIn
\* is positive and that is more
refreshThreshold(rin) ==
    IF rin > 0 /\ (rin \div 5) > 300 THEN rin \div 5 ELSE 300

\* a faulty NeedsRefresh: every call refreshes
NeedsRefreshAlways(exp, now, rin) == TRUE

\* timeUntilExpiry <= refreshThreshold
NeedsRefresh(exp, now, rin) == exp - now <= refreshThreshold(rin)

\* the deferred tokenMu.Unlock() and the return of ensureValidToken
TokenReturn(c, result) ==
    /\ tpc' = [tpc EXCEPT ![c] = "returned"]
    /\ tret' = [tret EXCEPT ![c] = result]
    /\ UNCHANGED tseen
    /\ tokenMu' = IF tokenMu = c THEN NoHolder ELSE tokenMu

\* the checks of ensureValidToken: no token -> authenticate; inside the
\* threshold -> refreshToken; else return nil
TokenCheck(c) ==
    /\ tpc[c] = "check"
    /\ IF cfgTok = EmptyToken
       THEN /\ tpc' = [tpc EXCEPT ![c] = "auth"]
            /\ UNCHANGED <<tret, tseen, tokenMu>>
       ELSE IF NeedsRefresh(cfgExp, tNow, cfgRin)
       THEN /\ tpc' = [tpc EXCEPT ![c] = "refresh"]
            /\ UNCHANGED <<tret, tseen, tokenMu>>
       ELSE TokenReturn(c, "ok")
    /\ UNCHANGED <<tBefore, tFaults, tInstalled, tLoaded, tNow, cfgTok, cfgGh, cfgExp,
                   cfgRin, saved,
                   issued, tAttempt, dirty, tsleeps, texch>>

\* refreshToken: no GitHub token -> error, and ensureValidToken falls back
\* to authenticate; else enter the loop with attempt = 1
RefreshStart(c) ==
    /\ tpc[c] = "refresh"
    /\ IF ~cfgGh
       THEN tpc' = [tpc EXCEPT ![c] = "auth"] /\ UNCHANGED tAttempt
       ELSE /\ tpc' = [tpc EXCEPT ![c] = "loop"]
            /\ tAttempt' = [tAttempt EXCEPT ![c] = 1]
    /\ UNCHANGED <<tBefore, tFaults, tInstalled, tLoaded, tNow, cfgTok, cfgGh, cfgExp,
                   cfgRin, saved,
                   tokenMu, issued, tret, tseen, dirty, tsleeps, texch>>

\* getCopilotToken(cfg.GitHubToken) is sent
ExchangeStart(c) ==
    /\ tpc[c] = "loop"
    /\ tpc' = [tpc EXCEPT ![c] = "exchange"]
    /\ texch' = [texch EXCEPT ![c] = @ + 1]
    /\ UNCHANGED <<tBefore, tFaults, tInstalled, tLoaded, tNow, cfgTok, cfgGh, cfgExp,
                   cfgRin, saved,
                   tokenMu, issued, tAttempt, tret, tseen, dirty, tsleeps>>

\* waitTime of refreshToken in seconds, after failed attempt n
RetryDelay(n) == baseRetryDelay * n * n

\* getCopilotToken returns.  On an error: give up after the last attempt
\* (ensureValidToken falls back to authenticate), else sleep.  On success
\* the three fields are set.
ExchangeEnd(c, ok, resp) ==
    /\ Fault(ok)
    /\ tpc[c] = "exchange"
    /\ IF ok
       THEN /\ issued' = issued + 1
            /\ cfgTok' = issued + 1
            /\ cfgExp' = tNow + resp.left
            /\ cfgRin' = resp.rin
            /\ tInstalled' = [tInstalled EXCEPT ![c] = issued + 1]
            /\ dirty' = [dirty EXCEPT ![c] = TRUE]
            /\ tpc' = [tpc EXCEPT ![c] = "save"]
       ELSE /\ tpc' = [tpc EXCEPT ![c] =
                         IF tAttempt[c] = maxRefreshRetries THEN "auth"
                         ELSE "sleep"]
            /\ UNCHANGED <<tInstalled, issued, cfgTok, cfgExp, cfgRin, dirty>>
    /\ UNCHANGED <<tBefore, tLoaded, tNow, cfgGh, saved, tokenMu, tAttempt, tret,
                   tseen, tsleeps, texch>>

\* time.Sleep(waitTime) returns; continue with attempt++
RefreshSleep(c) ==
    /\ tpc[c] = "sleep"
    /\ tNow' = tNow + RetryDelay(tAttempt[c])
    /\ tsleeps' = [tsleeps EXCEPT ![c] = Append(@, RetryDelay(tAttempt[c]))]
    /\ tAttempt' = [tAttempt EXCEPT ![c] = @ + 1]
    /\ tpc' = [tpc EXCEPT ![c] = "loop"]
    /\ UNCHANGED <<tBefore, tFaults, tInstalled, tLoaded, cfgTok, cfgGh, cfgExp,
                   cfgRin, saved, tokenMu,
                   issued, tret, tseen, dirty, texch>>

\* return saveConfig(cfg) of refreshToken: on success ensureValidToken
\* returns nil, on an error it falls back to authenticate
RefreshSave(c, ok) ==
    /\ Fault(ok)
    /\ tpc[c] = "save"
    /\ IF ok
       THEN /\ saved' = Cfg
            /\ TokenReturn(c, "ok")
       ELSE /\ tpc' = [tpc EXCEPT ![c] = "auth"]
            /\ UNCHANGED <<saved, tret, tseen, tokenMu>>
    /\ UNCHANGED <<tBefore, tInstalled, tLoaded, tNow, cfgTok, cfgGh, cfgExp, cfgRin, issued,
                   tAttempt, dirty, tsleeps, texch>>

\* the first test of authenticate: cfg.CopilotToken != "" && cfg.ExpiresAt > now+60
StillValid(tok, exp, now) == tok # EmptyToken /\ exp > now + 60

\* authenticate: return nil for a token that is still valid, else start the
\* device flow
AuthStart(c) ==
    /\ tpc[c] = "auth"
    /\ IF StillValid(cfgTok, cfgExp, tNow)
       THEN TokenReturn(c, "ok")
       ELSE /\ tpc' = [tpc EXCEPT ![c] = "device"]
            /\ UNCHANGED <<tret, tseen, tokenMu>>
    /\ tBefore' = Cfg
    /\ UNCHANGED <<tFaults, tInstalled, tLoaded, tNow, cfgTok, cfgGh, cfgExp,
                   cfgRin, saved,
                   issued, tAttempt, dirty, tsleeps, texch>>

\* the device code request and pollForGitHubToken: an error is returned, or
\* cfg.GitHubToken is set
DeviceFlow(c, ok) ==
    /\ Fault(ok)
    /\ tpc[c] = "device"
    /\ IF ok
       THEN /\ cfgGh' = TRUE
            /\ dirty' = [dirty EXCEPT ![c] = TRUE]
            /\ tpc' = [tpc EXCEPT ![c] = "authExchange"]
            /\ UNCHANGED <<tret, tseen, tokenMu>>
       ELSE /\ TokenReturn(c, "err")
            /\ UNCHANGED <<cfgGh, dirty>>
    /\ UNCHANGED <<tBefore, tInstalled, tLoaded, tNow, cfgTok, cfgExp, cfgRin, saved, issued,
                   tAttempt, tsleeps, texch>>

\* getCopilotToken(githubToken) of authenticate: an error is returned, or
\* the three fields are set
AuthExchange(c, ok, resp) ==
    /\ Fault(ok)
    /\ tpc[c] = "authExchange"
    /\ IF ok
       THEN /\ issued' = issued + 1
            /\ cfgTok' = issued + 1
            /\ cfgExp' = tNow + resp.left
            /\ cfgRin' = resp.rin
            /\ tInstalled' = [tInstalled EXCEPT ![c] = issued + 1]
            /\ tpc' = [tpc EXCEPT ![c] = "authSave"]
            /\ UNCHANGED <<tret, tseen, tokenMu>>
       ELSE /\ TokenReturn(c, "err")
            /\ UNCHANGED <<tInstalled, issued, cfgTok, cfgExp, cfgRin>>
    /\ UNCHANGED <<tBefore, tLoaded, tNow, cfgGh, saved, tAttempt, dirty, tsleeps,
                   texch>>

\* saveConfig(cfg) of authenticate and its return
AuthSave(c, ok) ==
    /\ Fault(ok)
    /\ tpc[c] = "authSave"
    /\ saved' = IF ok THEN Cfg ELSE saved
    /\ TokenReturn(c, IF ok THEN "ok" ELSE "err")
    /\ UNCHANGED <<tBefore, tInstalled, tLoaded, tNow, cfgTok, cfgGh, cfgExp, cfgRin, issued,
                   tAttempt, dirty, tsleeps, texch>>

\* what the read of cfg.CopilotToken in processProxyRequest can yield.  It
\* is made without tokenMu: while another caller is about to assign the
\* field in refreshToken or authenticate, the read and the write are
\* unordered, and the read yields the old string, the new one (the write
\* taken first), or a torn one.
TokenRead(c) ==
    IF \E d \in TokenCallers \ {c} : tpc[d] \in {"exchange", "authExchange"}
    THEN {cfgTok, TornToken}
    ELSE {cfgTok}

\* processProxyRequest after a successful ensureValidToken:
\* req.Header.Set("Authorization", "Bearer "+cfg.CopilotToken)
TokenUse(c, v) ==
    /\ tpc[c] = "returned"
    /\ tret[c] = "ok"
    /\ v \in TokenRead(c)
    /\ tpc' = [tpc EXCEPT ![c] = "used"]
    /\ tseen' = [tseen EXCEPT ![c] = v]
    /\ UNCHANGED <<tBefore, tFaults, tInstalled, tLoaded, tNow, cfgTok, cfgGh, cfgExp,
                   cfgRin,
                   saved, tokenMu, issued, tAttempt, tret, dirty, tsleeps,
                   texch>>

NextToken ==
    \/ \E tok \in {EmptyToken, LoadedToken}, gh \in BOOLEAN,
          left \in LoadedLeft, rin \in LoadedRefreshIn :
           LoadConfig(tok, gh, left, rin)
    \/ \E c \in TokenCallers : TokenCall(c)
    \/ \E c \in TokenCallers : TokenLock(c)
    \/ \E c \in TokenCallers : TokenCheck(c)
    \/ \E c \in TokenCallers : RefreshStart(c)
    \/ \E c \in TokenCallers : ExchangeStart(c)
    \/ \E c \in TokenCallers, ok \in BOOLEAN, resp \in ExchangeResponses :
           ExchangeEnd(c, ok, resp)
    \/ \E c \in TokenCallers : RefreshSleep(c)
    \/ \E c \in TokenCallers, ok \in BOOLEAN : RefreshSave(c, ok)
    \/ \E c \in TokenCallers : AuthStart(c)
    \/ \E c \in TokenCallers, ok \in BOOLEAN : DeviceFlow(c, ok)
    \/ \E c \in TokenCallers, ok \in BOOLEAN, resp \in ExchangeResponses :
           AuthExchange(c, ok, resp)
    \/ \E c \in TokenCallers, ok \in BOOLEAN : AuthSave(c, ok)
    \/ \E c \in TokenCallers : \E v \in TokenRead(c) : TokenUse(c, v)

(***************************************************************************)
(* The auth service of the internal package (AuthService in config.go:     *)
(* EnsureValidToken, RefreshToken, RefreshTokenWithContext), as built by   *)
(* NewAuthService(httpClient) with no option: refreshFunc and configPath,  *)
(* which only the tests set, are nil and empty.  One call is followed from *)
(* its entry to its return.  EnsureValidToken refreshes through            *)
(* RefreshToken, whose context is context.Background(); a caller of        *)
(* RefreshTokenWithContext brings a context that may be cancelled before   *)
(* the call or at any time during it.                                      *)
(*                                                                         *)
(* Positions of the call: "idle", "check" (EnsureValidToken), "refresh"    *)
(* (entry of RefreshTokenWithContext), "loop", "exchange" (getCopilotToken *)
(* in flight), "backoff" (in the select of the context-aware sleep),       *)
(* "save" (fields set, before SaveConfig), "done".                         *)
(***************************************************************************)
SvcOps == {"EnsureValidToken", "RefreshTokenWithContext"}
\* seconds the loaded token has left
SvcLoadedLeft == {-50, 200, 300, 301}

SvcCfg == [tok |-> sTok, gh |-> sGh, exp |-> sExp, rin |-> sRin]

InitService ==
    /\ sLoaded = FALSE
    /\ sNow = StartTime
    /\ sTok = EmptyToken
    /\ sGh = FALSE
    /\ sExp = 0
    /\ sRin = 0
    /\ sSaved = NoFile
    /\ sCfg0 = NoFile
    /\ sOp = "none"
    /\ spc = "idle"
    /\ sCtx = FALSE
    /\ sCtxAtCall = FALSE
    /\ sTimer = FALSE
    /\ sAttempt = 0
    /\ sRet = "none"
    /\ sExch = 0
    /\ sWaits = <<>>

\* LoadConfig: the token state the service is called with
SvcLoad(tok, gh, left) ==
    /\ ~sLoaded
    /\ sLoaded' = TRUE
    /\ sTok' = tok
    /\ sGh' = gh
    /\ sExp' = IF tok = EmptyToken THEN 0 ELSE sNow + left
    /\ sRin' = IF tok = EmptyToken THEN 0 ELSE 1500
    /\ sSaved' = [tok |-> sTok', gh |-> gh, exp |-> sExp', rin |-> sRin']
    /\ sCfg0' = sSaved'
    /\ UNCHANGED <<sNow, sOp, spc, sCtx, sCtxAtCall, sTimer, sAttempt, sRet,
                   sExch, sWaits>>

\* a call of the service; cancelled: the context is cancelled already
SvcCall(op, cancelled) ==
    /\ sLoaded
    /\ spc = "idle"
    /\ op = "EnsureValidToken" => ~cancelled
    /\ sOp' = op
    /\ spc' = IF op = "EnsureValidToken" THEN "check" ELSE "refresh"
    /\ sCtx' = cancelled
    /\ sCtxAtCall' = cancelled
    /\ UNCHANGED <<sLoaded, sNow, sTok, sGh, sExp, sRin, sSaved, sCfg0,
                   sTimer, sAttempt, sRet, sExch, sWaits>>

\* the caller of RefreshTokenWithContext cancels its context
SvcCancel ==
    /\ sOp = "RefreshTokenWithContext"
    /\ spc # "done"
    /\ ~sCtx
    /\ sCtx' = TRUE
    /\ UNCHANGED <<sLoaded, sNow, sTok, sGh, sExp, sRin, sSaved, sCfg0, sOp,
                   spc, sCtxAtCall, sTimer, sAttempt, sRet, sExch, sWaits>>

\* the call returns result
SvcReturn(result) ==
    /\ spc' = "done"
    /\ sRet' = result

\* a faulty SvcNeedsRefresh: a token with exactly 300 s left is not refreshed
SvcNeedsRefreshStrict(exp, now) == exp < now + 300

\* EnsureValidToken: cfg.ExpiresAt <= now+300
SvcNeedsRefresh(exp, now) == exp <= now + 300

\* EnsureValidToken: no token -> error; within 5 minutes of expiry ->
\* return s.RefreshToken(cfg); else nil
SvcEnsureCheck ==
    /\ spc = "check"
    /\ IF sTok = EmptyToken THEN SvcReturn("err")
       ELSE IF SvcNeedsRefresh(sExp, sNow) THEN spc' = "refresh" /\ UNCHANGED sRet
       ELSE SvcReturn("ok")
    /\ UNCHANGED <<sLoaded, sNow, sTok, sGh, sExp, sRin, sSaved, sCfg0, sOp,
                   sCtx, sCtxAtCall, sTimer, sAttempt, sExch, sWaits>>

\* a faulty HasGitHubToken: the test is missing
HasGitHubTokenAlways(gh) == TRUE

\* cfg.GitHubToken != ""
HasGitHubToken(gh) == gh

\* RefreshTokenWithContext: no GitHub token -> NewAuthError; else enter the
\* loop with attempt = 1
SvcRefreshStart ==
    /\ spc = "refresh"
    /\ IF HasGitHubToken(sGh)
       THEN spc' = "loop" /\ sAttempt' = 1 /\ UNCHANGED sRet
       ELSE SvcReturn("err") /\ UNCHANGED sAttempt
    /\ UNCHANGED <<sLoaded, sNow, sTok, sGh, sExp, sRin, sSaved, sCfg0, sOp,
                   sCtx, sCtxAtCall, sTimer, sExch, sWaits>>

\* s.getCopilotToken(cfg, cfg.GitHubToken) is sent; its request is built with
\* http.NewRequest and does not carry ctx
SvcExchangeStart ==
    /\ spc = "loop"
    /\ spc' = "exchange"
    /\ sExch' = sExch + 1
    /\ UNCHANGED <<sLoaded, sNow, sTok, sGh, sExp, sRin, sSaved, sCfg0, sOp,
                   sCtx, sCtxAtCall, sTimer, sAttempt, sRet, sWaits>>

\* getCopilotToken returns: on an error give up after the last attempt, else
\* enter the select; on success set the three fields
SvcExchangeEnd(ok, resp) ==
    /\ spc = "exchange"
    /\ IF ok
       THEN /\ sTok' = sTok + 1
            /\ sExp' = sNow + resp.left
            /\ sRin' = resp.rin
            /\ spc' = "save"
            /\ UNCHANGED sRet
       ELSE /\ IF sAttempt = maxRefreshRetries THEN SvcReturn("err")
               ELSE spc' = "backoff" /\ UNCHANGED sRet
            /\ UNCHANGED <<sTok, sExp, sRin>>
    /\ sTimer' = FALSE
    /\ UNCHANGED <<sLoaded, sNow, sGh, sSaved, sCfg0, sOp, sCtx, sCtxAtCall,
                   sAttempt, sExch, sWaits>>

\* time.After(waitTime) fires.  A select on a context that is cancelled
\* returns before the timer can fire.
SvcTimerFire ==
    /\ spc = "backoff"
    /\ ~sTimer
    /\ ~sCtx
    /\ sTimer' = TRUE
    /\ sNow' = sNow + RetryDelay(sAttempt)
    /\ sWaits' = Append(sWaits, RetryDelay(sAttempt))
    /\ UNCHANGED <<sLoaded, sTok, sGh, sExp, sRin, sSaved, sCfg0, sOp, spc,
                   sCtx, sCtxAtCall, sAttempt, sRet, sExch>>

\* the select takes case <-time.After(waitTime): continue
SvcBackoffContinue ==
    /\ spc = "backoff"
    /\ sTimer
    /\ spc' = "loop"
    /\ sAttempt' = sAttempt + 1
    /\ UNCHANGED <<sLoaded, sNow, sTok, sGh, sExp, sRin, sSaved, sCfg0, sOp,
                   sCtx, sCtxAtCall, sTimer, sRet, sExch, sWaits>>

\* the select takes case <-ctx.Done(): return ctx.Err()
SvcBackoffCancelled ==
    /\ spc = "backoff"
    /\ sCtx
    /\ SvcReturn("err")
    /\ UNCHANGED <<sLoaded, sNow, sTok, sGh, sExp, sRin, sSaved, sCfg0, sOp,
                   sCtx, sCtxAtCall, sTimer, sAttempt, sExch, sWaits>>

\* return cfg.SaveConfig()
SvcSave(ok) ==
    /\ spc = "save"
    /\ sSaved' = IF ok THEN SvcCfg ELSE sSaved
    /\ SvcReturn(IF ok THEN "ok" ELSE "err")
    /\ UNCHANGED <<sLoaded, sNow, sTok, sGh, sExp, sRin, sCfg0, sOp, sCtx,
                   sCtxAtCall, sTimer, sAttempt, sExch, sWaits>>

NextService ==
    \/ \E tok \in {EmptyToken, LoadedToken}, gh \in BOOLEAN,
          left \in SvcLoadedLeft : SvcLoad(tok, gh, left)
    \/ \E op \in SvcOps, cancelled \in BOOLEAN : SvcCall(op, cancelled)
    \/ SvcCancel
    \/ SvcEnsureCheck
    \/ SvcRefreshStart
    \/ SvcExchangeStart
    \/ \E ok \in BOOLEAN, resp \in ExchangeResponses : SvcExchangeEnd(ok, resp)
    \/ SvcTimerFire
    \/ SvcBackoffContinue
    \/ SvcBackoffCancelled
    \/ \E ok \in BOOLEAN : SvcSave(ok)

(***************************************************************************)
(* The polling loop of the device flow (auth.go: pollForGitHubToken; the   *)
(* same loop in AuthService.pollForGitHubTokenWithContext, called with     *)
(* context.Background()).  The answers are those of the OAuth device flow: *)
(* an error code or an access token, never both; a transport error and a   *)
(* body with neither field are the other two outcomes of a poll.           *)
(***************************************************************************)
PollErrors == {"authorization_pending", "slow_down", "access_denied"}
PollAnswers == PollErrors \cup {"transport error", "access_token", "neither"}

InitPoll ==
    /\ pollI = 0
    /\ ppc = "sleep"
    /\ pPolls = 0
    /\ pAnswer = "none"
    /\ pRet = "none"

\* a faulty PollAgain: one iteration too many
PollAgainInclusive(i) == i <= maxPolls

\* the loop condition i < 120
PollAgain(i) == i < maxPolls

\* time.Sleep(interval) ends and the request is sent, or the loop is over:
\* "authentication timed out"
PollSend ==
    /\ ppc = "sleep"
    /\ IF PollAgain(pollI)
       THEN /\ ppc' = "post"
            /\ pPolls' = pPolls + 1
            /\ UNCHANGED pRet
       ELSE /\ ppc' = "done"
            /\ pRet' = "timed out"
            /\ UNCHANGED pPolls
    /\ UNCHANGED <<pollI, pAnswer>>

\* the next iteration: i++
PollContinue ==
    /\ ppc' = "sleep"
    /\ pollI' = pollI + 1
    /\ UNCHANGED pRet

\* the answer to a poll: a transport error -> continue; tr.Error set ->
\* continue on authorization_pending, else return the error; tr.AccessToken
\* set -> return it; neither -> next iteration
PollAnswer(a) ==
    /\ ppc = "post"
    /\ pAnswer' = a
    /\ IF a = "transport error" THEN PollContinue
       ELSE IF a \in PollErrors
       THEN IF a = "authorization_pending" THEN PollContinue
            ELSE ppc' = "done" /\ pRet' = "error" /\ UNCHANGED pollI
       ELSE IF a = "access_token"
       THEN ppc' = "done" /\ pRet' = "token" /\ UNCHANGED pollI
       ELSE PollContinue
    /\ UNCHANGED pPolls

NextPoll ==
    \/ PollSend
    \/ \E a \in PollAnswers : PollAnswer(a)

(***************************************************************************)
(* The configuration store (config.go: loadConfig, setDefaultTimeouts,     *)
(* saveConfig).  Either the stored file is edited, field by field, and     *)
(* loaded; or a configuration is chosen in memory, saved and loaded back.  *)
(* A JSON field that is missing decodes to the zero value, like a field    *)
(* that is stored as 0 or "".                                              *)
(*                                                                         *)
(* Strings are told apart by what the JSON encoder does to them: a plain   *)
(* one is written as it is, one with the characters <, > or & is written   *)
(* with \u escapes that decode to the same string, and one with bytes      *)
(* that are not UTF-8 is written with U+FFFD in their place.               *)
(***************************************************************************)
TimeoutFields == {"http_client", "server_read", "server_write", "server_idle",
                  "proxy_context", "circuit_breaker", "keep_alive",
                  "tls_handshake", "dial_timeout", "idle_conn_timeout"}

\* setDefaultTimeouts: the value a zero field gets
DefaultTimeout(f) ==
    CASE f = "http_client" -> 300
      [] f = "server_read" -> 30
      [] f = "server_write" -> 300
      [] f = "server_idle" -> 120
      [] f = "proxy_context" -> 300
      [] f = "circuit_breaker" -> 30
      [] f = "keep_alive" -> 30
      [] f = "tls_handshake" -> 10
      [] f = "dial_timeout" -> 10
      [] f = "idle_conn_timeout" -> 90

\* values a timeout field of the stored file is given
FileTimeoutValues == {-1, 1, 3600, 3601}
\* ports of a configuration
ConfigPorts == {0, 8081, 9000}
\* strings in memory
ConfigStrings == {"", "plain", "with <&>", "not UTF-8", "U+FFFD"}

\* no configuration: the file is absent, nothing is loaded
NoConfig ==
    [kind |-> "none", port |-> 0, gh |-> "", tok |-> "", exp |-> 0, rin |-> 0,
     timeouts |-> [f \in TimeoutFields |-> 0]]
\* a file that is not a JSON object
CorruptFile == [NoConfig EXCEPT !.kind = "corrupt"]
\* a file holding {}
EmptyObject == [NoConfig EXCEPT !.kind = "json"]

InitConfig ==
    /\ cFile = NoConfig
    /\ cMem = NoConfig
    /\ cOrig = NoConfig
    /\ cfgpc = "start"
    /\ cEdits = 0
    /\ cErr = FALSE

\* the user writes one timeout of the stored file
FileSetTimeout(f, v) ==
    /\ cfgpc \in {"start", "edited"}
    /\ cEdits < MaxEdited
    /\ cFile.kind # "corrupt"
    /\ cFile.timeouts[f] = 0
    /\ cFile' = [cFile EXCEPT !.kind = "json", !.timeouts[f] = v]
    /\ cEdits' = cEdits + 1
    /\ cfgpc' = "edited"
    /\ UNCHANGED <<cMem, cOrig, cErr>>

\* the stored file is damaged
FileCorrupt ==
    /\ cfgpc \in {"start", "edited"}
    /\ cFile' = CorruptFile
    /\ cfgpc' = "damaged"
    /\ UNCHANGED <<cMem, cOrig, cEdits, cErr>>

\* a configuration in memory whose timeouts are the defaulted ones
ConfigChoose(port, gh, tok, exp) ==
    /\ cfgpc = "start"
    /\ cMem' = [kind |-> "cfg", port |-> port, gh |-> gh, tok |-> tok,
                exp |-> exp, rin |-> exp,
                timeouts |-> [f \in TimeoutFields |-> DefaultTimeout(f)]]
    /\ cOrig' = cMem'
    /\ cfgpc' = "chosen"
    /\ UNCHANGED <<cFile, cEdits, cErr>>

\* json.Encoder on a string, read back by json.Decoder
JSONString(s) == IF s = "not UTF-8" THEN "U+FFFD" ELSE s

\* saveConfig: os.Create and json.NewEncoder(f).Encode(cfg)
saveConfig(cfg) ==
    [cfg EXCEPT !.kind = "json", !.gh = JSONString(cfg.gh),
                !.tok = JSONString(cfg.tok)]

ConfigSave ==
    /\ cfgpc = "chosen"
    /\ cFile' = saveConfig(cMem)
    /\ cfgpc' = "saved"
    /\ UNCHANGED <<cMem, cOrig, cEdits, cErr>>

\* a faulty DefaultPort: the stored port is ignored
DefaultPortAlways(port) == 8081

\* loadConfig: cfg.Port == 0 -> 8081
DefaultPort(port) == IF port = 0 THEN 8081 ELSE port

\* setDefaultTimeouts: the zero fields get their defaults
setDefaultTimeouts(t) ==
    [f \in TimeoutFields |-> IF t[f] = 0 THEN DefaultTimeout(f) ELSE t[f]]

\* loadConfig of a file that opens and decodes; an absent file decodes like
\* {} here: Port 8081 and the default timeouts
loadConfig(file) ==
    [file EXCEPT !.kind = "cfg", !.port = DefaultPort(file.port),
                 !.timeouts = setDefaultTimeouts(file.timeouts)]

\* loadConfig: no file -> the default configuration; a decode error -> the
\* error; else the decoded configuration with the defaults filled in
ConfigLoad ==
    /\ cfgpc \in {"start", "edited", "damaged", "saved"}
    /\ IF cFile.kind = "corrupt"
       THEN cErr' = TRUE /\ UNCHANGED cMem
       ELSE cMem' = loadConfig(cFile) /\ UNCHANGED cErr
    /\ cfgpc' = "loaded"
    /\ UNCHANGED <<cFile, cOrig, cEdits>>

NextConfig ==
    \/ \E f \in TimeoutFields, v \in FileTimeoutValues : FileSetTimeout(f, v)
    \/ FileCorrupt
    \/ \E port \in ConfigPorts, gh, tok \in ConfigStrings, exp \in {0, 1500} :
           ConfigChoose(port, gh, tok, exp)
    \/ ConfigSave
    \/ ConfigLoad

(***************************************************************************)
(* The relay of the upstream body (proxy.go: the end of                    *)
(* processProxyRequest), called by proxyHandler with its responseWrapper   *)
(* as w.  Lengths are in units of 512 bytes: the buffer of the chunked     *)
(* loop holds 2 units, the buffer of io.Copy 64.  rLog is what the relay   *)
(* does to the client's writer: <<"write", n>> and <<"flush">>.            *)
(***************************************************************************)
ContentTypes == {"text/event-stream", "text/event-stream; charset=utf-8",
                 "application/json"}

\* the methods of *responseWrapper: those of the embedded interface
\* http.ResponseWriter, two of them overridden
responseWrapperMethods == {"Header", "Write", "WriteHeader"}

\* w.(http.Flusher) on a writer with these methods
IsFlusher(methods) == "Flush" \in methods

\* the branch the relay takes
RelayMode(ct) ==
    IF ct = "text/event-stream"
    THEN IF IsFlusher(responseWrapperMethods) THEN "chunked" ELSE "copy"
    ELSE "copyBuffer"

\* units one Read can return: make([]byte, 1024), or the 32 KiB of io.Copy
ReadUnits(mode) == IF mode = "chunked" THEN 2 ELSE 64

InitRelay ==
    /\ rpc = "idle"
    /\ rCT = "none"
    /\ rUnderFlush = FALSE
    /\ rMode = "none"
    /\ rLeft = 0
    /\ rBuf = 0
    /\ rLog = <<>>

\* the relay starts on an upstream response of content type ct and len units;
\* flushable: the server's writer under the wrapper is an http.Flusher
RelayStart(ct, flushable, len) ==
    /\ rpc = "idle"
    /\ rCT' = ct
    /\ rUnderFlush' = flushable
    /\ rMode' = RelayMode(ct)
    /\ rLeft' = len
    /\ rpc' = "read"
    /\ UNCHANGED <<rBuf, rLog>>

\* resp.Body.Read: n units, or io.EOF at the end of the body
RelayRead(n) ==
    /\ rpc = "read"
    /\ IF rLeft = 0
       THEN rpc' = "done" /\ UNCHANGED <<rBuf, rLeft>>
       ELSE /\ n <= rLeft
            /\ n <= ReadUnits(rMode)
            /\ rBuf' = n
            /\ rLeft' = rLeft - n
            /\ rpc' = "write"
    /\ UNCHANGED <<rCT, rUnderFlush, rMode, rLog>>

\* w.Write(buf[:n]), followed in the chunked loop by flusher.Flush()
RelayWrite ==
    /\ rpc = "write"
    /\ rLog' = IF rMode = "chunked"
               THEN rLog \o <<<<"write", rBuf>>, <<"flush">>>>
               ELSE Append(rLog, <<"write", rBuf>>)
    /\ rBuf' = 0
    /\ rpc' = "read"
    /\ UNCHANGED <<rCT, rUnderFlush, rMode, rLeft>>

NextRelay ==
    \/ \E ct \in ContentTypes, flushable \in BOOLEAN, len \in 0..MaxStream :
           RelayStart(ct, flushable, len)
    \/ \E n \in 1..MaxStream : RelayRead(n)
    \/ RelayWrite

(***************************************************************************)
(* The request fingerprint (proxy.go: CoalescingCache.getRequestKey),      *)
(* computed for two requests.  Strings are sequences of bytes.  SHA-256 is *)
(* taken as collision-free: the digest of a byte sequence stands for that  *)
(* sequence and for no other.                                              *)
(***************************************************************************)
KeyBytes == {"a", "b"}

\* the byte strings of at most n bytes
RECURSIVE BytesUpTo(_)
BytesUpTo(n) ==
    IF n = 0 THEN {<<>>}
    ELSE BytesUpTo(n - 1) \cup
         {Append(s, c) : s \in {t \in BytesUpTo(n - 1) : Len(t) = n - 1},
                         c \in KeyBytes}

KeyStrings == BytesUpTo(MaxKeyLen)

\* hex.EncodeToString(h.Sum(nil)) of what was written to h
sha256Hex(written) == <<"sha256", written>>

\* getRequestKey: h.Write(method); h.Write(url); h.Write(body)
getRequestKey(method, url, body) == sha256Hex(method \o url \o body)

InitKey ==
    /\ kpc = "none"
    /\ kFirst = <<>>
    /\ kSecond = <<>>
    /\ key1 = <<>>
    /\ key2 = <<>>

\* the key of a first request
KeyFirst(method, url, body) ==
    /\ kpc = "none"
    /\ kFirst' = <<method, url, body>>
    /\ key1' = getRequestKey(method, url, body)
    /\ kpc' = "one"
    /\ UNCHANGED <<kSecond, key2>>

\* the key of a second request
KeySecond(method, url, body) ==
    /\ kpc = "one"
    /\ kSecond' = <<method, url, body>>
    /\ key2' = getRequestKey(method, url, body)
    /\ kpc' = "two"
    /\ UNCHANGED <<kFirst, key1>>

NextKey ==
    \/ \E method, url, body \in KeyStrings : KeyFirst(method, url, body)
    \/ \E method, url, body \in KeyStrings : KeySecond(method, url, body)

(***************************************************************************)
(* The chat handler around the pool (proxy.go: proxyHandler).  The handler *)
(* of job j makes its context, calls globalWorkerPool.Submit(job) and,     *)
(* when Submit has returned, waits in  select { <-done; <-ctx.Done() }.    *)
(* The pool is the one above: handler j is inside Submit while jst[j] is   *)
(* "submit".  One handler of a run is watched from the expiry of its       *)
(* context on; the contexts of the others are taken to last.               *)
(***************************************************************************)
InitHandler ==
    /\ hWatch = NoJob
    /\ hRet = "none"

\* the context of the handler of job j expires; the context is made at the
\* top of the handler, before Submit is called
ProxyContextExpires(j) ==
    /\ hWatch = NoJob
    /\ jst[j] # "new"
    /\ hWatch' = j
    /\ UNCHANGED hRet

\* Submit has returned: the handler of job j is in its select
InSelect(j) == jst[j] \in {"queued", "running", "done"}

\* the branches of the select that are ready: done holds the job's error
\* once job() has returned, ctx.Done() is closed for the watched handler
ReadyBranches(j) ==
    IF jst[j] = "done" THEN {"done", "timeout"} ELSE {"timeout"}

\* the select takes a ready branch and the handler returns
HandlerSelect(j, branch) ==
    /\ hWatch = j
    /\ hRet = "none"
    /\ InSelect(j)
    /\ branch \in ReadyBranches(j)
    /\ hRet' = branch
    /\ UNCHANGED hWatch

NextHandler ==
    \/ \E j \in Jobs : ProxyContextExpires(j)
    \/ \E j \in Jobs, branch \in {"done", "timeout"} : HandlerSelect(j, branch)

(***************************************************************************)
(* Specifications.  The coalescing cache with the models handler and the   *)
(* circuit breaker with the chat handler share no state, so each has a     *)
(* specification of its own; Spec runs both.                               *)
(*                                                                         *)
(* SpecChat leaves out the ctx.Done() branch of the handler's select.  A   *)
(* handler that takes it returns early, but its job runs on unchanged and  *)
(* keeps its slot until it ends, so the calls that reach the breaker, the  *)
(* pool and the gate are the same with and without that branch;            *)
(* SpecChatTimeout has it.                                                 *)
(*                                                                         *)
(* The token manager of the request path (SpecToken), one call of the      *)
(* auth service of the internal package (SpecService) and the polling loop *)
(* of the device flow (SpecPollFair) have their own state as well.         *)
(***************************************************************************)
Init == InitCoalesce /\ InitBreaker /\ InitChat /\ InitPool /\ InitRequest
        /\ InitToken /\ InitService /\ InitPoll
        /\ InitConfig /\ InitHandler /\ InitKey /\ InitRelay

Next ==
    \/ NextCoalesce /\ UNCHANGED <<breakerVars, chatVars, poolVars, requestVars, authVars>>
    \/ NextChat /\ UNCHANGED <<coalesceVars, poolVars, requestVars, authVars>>
    \/ NextChatTimeout /\ UNCHANGED <<coalesceVars, poolVars, requestVars, authVars>>
    \/ NextPool /\ UNCHANGED <<coalesceVars, breakerVars, chatVars, requestVars, authVars>>
    \/ NextRequest /\ UNCHANGED <<coalesceVars, chatVars, poolVars, authVars>>
    \/ NextToken /\ UNCHANGED <<coalesceVars, breakerVars, chatVars, poolVars,
                                requestVars, serviceVars, pollVars, laterVars>>
    \/ NextService /\ UNCHANGED <<coalesceVars, breakerVars, chatVars, poolVars,
                                  requestVars, tokenVars, pollVars, laterVars>>
    \/ NextPoll /\ UNCHANGED <<coalesceVars, breakerVars, chatVars, poolVars,
                               requestVars, tokenVars, serviceVars, laterVars>>
    \/ NextConfig /\ UNCHANGED <<coalesceVars, breakerVars, chatVars, poolVars,
                                 requestVars, tokenVars, serviceVars, pollVars, relayVars, keyVars, handlerVars>>
    \/ NextRelay /\ UNCHANGED <<coalesceVars, breakerVars, chatVars, poolVars,
         requestVars, tokenVars, serviceVars, pollVars, configVars, keyVars, handlerVars>>
    \/ NextKey /\ UNCHANGED <<coalesceVars, breakerVars, chatVars, poolVars,
         requestVars, tokenVars, serviceVars, pollVars, configVars, relayVars, handlerVars>>
    \/ NextHandler /\ UNCHANGED <<coalesceVars, breakerVars, chatVars, poolVars,
         requestVars, tokenVars, serviceVars, pollVars, configVars, relayVars, keyVars>>

Spec == Init /\ [][Next]_vars

\* one chat request in detail
SpecRequest ==
    Init /\ [][NextRequest /\ UNCHANGED <<coalesceVars, chatVars, poolVars, authVars>>]_vars

SpecCoalesce ==
    Init /\ [][NextCoalesce /\ UNCHANGED <<breakerVars, chatVars, poolVars, requestVars, authVars>>]_vars

SpecChat == Init /\ [][NextChat /\ UNCHANGED <<coalesceVars, poolVars, requestVars, authVars>>]_vars

SpecChatTimeout ==
    Init /\ [][(NextChat \/ NextChatTimeout)
               /\ UNCHANGED <<coalesceVars, poolVars, requestVars, authVars>>]_vars

\* the pool on its own
SpecPool ==
    Init /\ [][NextPool /\ UNCHANGED <<coalesceVars, breakerVars, chatVars, requestVars, authVars>>]_vars

\* the pool on its own with the scheduling of the Go runtime: a worker that
\* stays able to receive from the queue does receive, and a job that runs
\* returns
SpecPoolFair ==
    /\ SpecPool
    /\ \A w \in PoolWorkers :
           /\ WF_vars(WorkerTakeJob(w) /\ UNCHANGED <<coalesceVars, breakerVars, chatVars, requestVars, authVars>>)
           /\ WF_vars(JobReturn(w) /\ UNCHANGED <<coalesceVars, breakerVars, chatVars, requestVars, authVars>>)

\* the token manager on its own
SpecToken ==
    Init /\ [][NextToken /\ UNCHANGED <<coalesceVars, breakerVars, chatVars,
                                        poolVars, requestVars, serviceVars, pollVars, laterVars>>]_vars

\* the polling loop, where a sleep ends and a request is answered or times out
SpecPollFair ==
    /\ Init
    /\ [][NextPoll /\ UNCHANGED <<coalesceVars, breakerVars, chatVars, poolVars,
                                  requestVars, tokenVars, serviceVars, laterVars>>]_vars
    /\ WF_vars(NextPoll /\ UNCHANGED <<coalesceVars, breakerVars, chatVars,
                                       poolVars, requestVars, tokenVars,
                                       serviceVars, laterVars>>)

\* the configuration store
SpecConfig ==
    Init /\ [][NextConfig /\ UNCHANGED <<coalesceVars, breakerVars, chatVars,
                                         poolVars, requestVars, tokenVars,
                                         serviceVars, pollVars, relayVars, keyVars, handlerVars>>]_vars

\* the relay of one upstream body
SpecRelay ==
    Init /\ [][NextRelay /\ UNCHANGED <<coalesceVars, breakerVars, chatVars, poolVars,
                 requestVars, tokenVars, serviceVars, pollVars, configVars, keyVars, handlerVars>>]_vars

\* the fingerprints of two requests
SpecKey ==
    Init /\ [][NextKey /\ UNCHANGED <<coalesceVars, breakerVars, chatVars, poolVars,
                 requestVars, tokenVars, serviceVars, pollVars, configVars, relayVars, handlerVars>>]_vars

\* the chat handlers and the pool
SpecHandler ==
    Init /\ [][/\ \/ NextPool /\ UNCHANGED handlerVars
                  \/ NextHandler /\ UNCHANGED poolVars
               /\ UNCHANGED <<coalesceVars, breakerVars, chatVars, requestVars,
                              tokenVars, serviceVars, pollVars, configVars,
                              relayVars, keyVars>>]_vars

\* one call of the auth service
SpecService ==
    Init /\ [][NextService /\ UNCHANGED <<coalesceVars, breakerVars, chatVars,
                                          poolVars, requestVars, tokenVars, pollVars, laterVars>>]_vars


(***************************************************************************)
(* Claims about the coalescing cache and the models handler, checked       *)
(* under SpecCoalesce.                                                     *)
(***************************************************************************)
\* the positions in which the fn of a producer is running
FnRunning == {"fn", "mRead", "mLock", "mFetch"}
\* the callers for which CoalesceRequest has returned
HasReturned(c) == cpc[c] \in {"returned", "done", "hPanic"}
\* the callers that found an entry and waited on its channel
IsWaiter(c) == cch[c] # NoChan /\ cch[c] # c

\* C1: every caller that waited on the channel of an in-flight producer
\* returns the very value the producer's fn returned.
C1_WaitersGetProducerValue ==
    \A c \in Callers :
        (IsWaiter(c) /\ HasReturned(c)) => ret[c] = fnResult[cch[c]]

\* C2: for every fingerprint, at most one producer function is executing at
\* any instant.
C2_AtMostOneProducer ==
    \A k \in Keys :
        Cardinality({c \in Callers : ckey[c] = k /\ cpc[c] \in FnRunning}) <= 1

\* C2 witness: a producer is executing while another caller with the same
\* fingerprint has arrived and waits.
C2_ProducerAndWaiter ==
    \E c, d \in Callers :
        /\ c # d
        /\ ckey[c] = ckey[d]
        /\ cpc[c] \in FnRunning
        /\ cpc[d] = "waiting"

\* C3: once a producer has ended in a panic of its fn, its map entry is gone
\* and no waiter on its channel is left blocked.
C3_PanicLeavesNothingBehind ==
    \A c \in Callers :
        cpc[c] = "fnPanic" =>
            /\ requests[ckey[c]] # c
            /\ \A d \in Callers :
                   (cpc[d] = "waiting" /\ cch[d] = c) => CanReceive(c)

\* C4: every /v1/models request that has ended has completed with the one
\* cached model list, and models.dev was fetched exactly once.
C4_ModelsOneFetchSameList ==
    \A c \in Callers :
        (ckey[c] = ModelsKey /\ cpc[c] \in {"done", "hPanic"}) =>
            /\ cpc[c] = "done"
            /\ ret[c] = cachedModels
            /\ fetchCount = 1

(***************************************************************************)
(* Claims about the circuit breaker and the chat handler, checked under    *)
(* SpecChat.                                                               *)
(***************************************************************************)
\* the step in which the handler of r gets the answer of canExecute from its
\* read-locked part
GateStep(r) == hpc[r] = "gate" /\ hpc'[r] # "gate"
\* the step in which the job of r reports its outcome to the breaker
ReportStep(r) == jpc[r] = "notify" /\ jpc'[r] # "notify"

\* C5: whenever 5 or more failures have been recorded since the last success
\* and the time since the last recorded failure does not exceed the recovery
\* timeout, the breaker is Open and canExecute answers false.
C5_OpenRejectsUntilTimeout ==
    (ThresholdReached(failureCount) /\ ~RecoveryElapsed) =>
        (state = CircuitOpen /\ CanExecuteDecision = "false")

\* C6: a canExecute call that finds the breaker HalfOpen (the probe was
\* admitted by the call that made it HalfOpen) is answered false.
C6_SingleProbe ==
    [][\A r \in Requests :
         (state = CircuitHalfOpen /\ GateStep(r)) => canExec'[r] = "false"]_vars

\* C7 (as stated): state = Closed implies the failure count is 0.
C7_ClosedImpliesZero ==
    state = CircuitClosed => failureCount = 0

\* C7 (amended): state = Closed implies the failure count is below the
\* threshold of 5.
C7_ClosedImpliesBelowThreshold ==
    state = CircuitClosed => failureCount < circuitBreakerFailureThreshold

\* C7 witness: the breaker is Closed with failures counted, one short of the
\* threshold.
C7_ClosedWithFailures ==
    state = CircuitClosed /\ failureCount = circuitBreakerFailureThreshold - 1

\* C8: a failure reported while the breaker is HalfOpen moves it to Open; a
\* success reported while it is HalfOpen moves it to Closed with the counter
\* at 0.
C8_HalfOpenOutcome ==
    [][\A r \in Requests :
         (state = CircuitHalfOpen /\ ReportStep(r)) =>
             IF CountsAsSuccess(final[r])
             THEN state' = CircuitClosed /\ failureCount' = 0
             ELSE state' = CircuitOpen]_vars

\* C9: a request for which canExecute returned false has been answered 503
\* and its handler has returned; its job was never submitted to the pool, so
\* no token check and no upstream call ran for it.
C9_RejectedNeverSubmitted ==
    \A r \in Requests :
        canExec[r] = "false" =>
            /\ hpc[r] = "returned"
            /\ status[r] = <<StatusServiceUnavailable>>
            /\ jpc[r] = "none"
            /\ \A i \in 1..Len(jobQueue) : jobQueue[i] # r
            /\ attempt[r] = 0
            /\ final[r] = NoOutcome

\* C9 witness: canExecute has returned false for a request.
C9_SomeRejected ==
    \E r \in Requests : canExec[r] = "false"

\* C10 (as stated): after three failures in a row the breaker is Open and
\* the next request is rejected.
C10_ThreeFailuresOpen ==
    failureCount >= 3 =>
        (state = CircuitOpen /\ CanExecuteDecision = "false")

\* C10 (amended): the report that brings the run of failures to five moves
\* the breaker to Open, so that a canExecute coming immediately afterwards
\* answers false; and a handler whose canExecute answers false responds 503.
C10_FiveFailuresOpen ==
    [][/\ (failureCount' > failureCount /\ failureCount' >= circuitBreakerFailureThreshold) =>
              (state' = CircuitOpen /\ CanExecuteDecision' = "false")
       /\ \A r \in Requests :
              (GateStep(r) /\ CanExecuteDecision = "false") =>
                  (canExec'[r] = "false"
                   /\ status'[r] = <<StatusServiceUnavailable>>)]_vars

\* C10 witness: five failures in a row have opened the breaker and a request
\* that came right after was rejected with 503.
C10_OpenedAndRejected ==
    \E r \in Requests :
        /\ failureCount = circuitBreakerFailureThreshold
        /\ state = CircuitOpen
        /\ canExec[r] = "false"
        /\ status[r] = <<StatusServiceUnavailable>>

(***************************************************************************)
(* Claims about the response of a chat request when the proxy context      *)
(* expires, checked under SpecChatTimeout.                                 *)
(***************************************************************************)
\* the step in which the handler of r takes the ctx.Done() branch while its
\* job has not reported completion
TimeoutStep(r) ==
    hpc[r] = "wait" /\ hpc'[r] = "returned" /\ jpc[r] # "finished"

\* C11: for every chat request and every interleaving of the worker job
\* with the handler's timeout branch, WriteHeader reaches the underlying
\* response writer at most once.
C11_HeaderAtMostOnce ==
    \A r \in Requests : Len(status[r]) <= 1

\* C12: when the proxy context expires before the job reports completion,
\* the handler writes a 408 if and only if the worker has written no header
\* and no body byte; if the worker has written, the handler writes nothing.
C12_TimeoutWritesIffUnwritten ==
    [][\A r \in Requests :
         TimeoutStep(r) =>
             IF headersSent[r]
             THEN status'[r] = status[r]
             ELSE status'[r] = Append(status[r], StatusRequestTimeout)]_vars

(***************************************************************************)
(* Claims about the worker pool and Server.Stop, checked under SpecPool    *)
(* and SpecPoolFair.                                                       *)
(***************************************************************************)
\* C13: after WorkerPool.Stop has returned the pool accepts no new job: a
\* job passed to Submit after Stop is neither placed in the queue nor run.
C13_NoJobAfterStop ==
    \A j \in Jobs :
        lateSubmit[j] =>
            /\ jst[j] = "submit"
            /\ runs[j] = 0
            /\ \A i \in 1..Len(poolQueue) : poolQueue[i] # j

\* C14: when WorkerPool.Stop has returned, every worker goroutine has exited
\* and every job a worker had dequeued before or during Stop has run to
\* completion.
C14_StopWaitsForWorkers ==
    stopPc = "returned" =>
        /\ \A w \in PoolWorkers : wpc[w] = "exited"
        /\ \A j \in Jobs : runs[j] > 0 => jst[j] = "done"

\* C14 witness: Stop has returned after one job was dequeued before the
\* close of quit and another after it.
C14_StoppedAfterJobs ==
    /\ stopPc = "returned"
    /\ \E j, k \in Jobs :
           /\ runs[j] > 0 /\ ~duringStop[j]
           /\ runs[k] > 0 /\ duringStop[k]

\* whether job j is in the queue
InQueue(j, q) == \E i \in 1..Len(q) : q[i] = j

\* C15: Submit never drops a job: a send on the full queue does not go
\* through (the submitter blocks until a slot is free), an accepted job stays
\* in the queue until a worker takes it and runs it, no job is started twice,
\* and while the pool is running every accepted job is eventually executed.
C15_NoJobDropped ==
    /\ [][\A j \in Jobs :
            /\ (jst[j] = "submit" /\ jst'[j] # "submit") =>
                   (Len(poolQueue) < QueueCapacity /\ InQueue(j, poolQueue'))
            /\ (InQueue(j, poolQueue) /\ ~InQueue(j, poolQueue')) =>
                   (jst'[j] = "running" /\ runs'[j] = 1)]_vars
    /\ [](\A j \in Jobs :
            /\ runs[j] <= 1
            /\ jst[j] = "queued" => InQueue(j, poolQueue)
            /\ jst[j] \in {"running", "done"} => runs[j] = 1)
    /\ \A j \in Jobs : (jst[j] = "queued") ~> (runs[j] = 1 \/ quit)

\* C15 witness: a submitter is blocked on the full queue while a job that
\* was accepted earlier has been executed.
C15_BlockedOnFullQueue ==
    /\ ~quit
    /\ Len(poolQueue) = QueueCapacity
    /\ \E j, k \in Jobs : jst[j] = "submit" /\ jst[k] = "done" /\ runs[k] = 1

C17_TokenFailureIs401 ==
    (qErr = ErrAuthentication /\ qhpc = "returned") =>
        /\ qStatus = <<StatusUnauthorized>>
        /\ qOutcomes = <<>>
        /\ qForwarded = NoBody

\* C18: a body of exactly the limit is accepted and forwarded upstream whole;
\* a longer body is never forwarded, its job ends in an error (that of the
\* read, unless the token check failed before it), and the handler that
\* receives the job's report answers with the error status 500.
C18_BodyLimit ==
    /\ qForwarded \in {NoBody, qBody}
    /\ qBody > BodyLimit => qForwarded = NoBody
    /\ (qBody > BodyLimit /\ qjpc \notin {"none", "token", "body"}) =>
           (qjpc = "finished" /\ qErr \in {ErrAuthentication, ErrReadingRequest})
    /\ (qBody > BodyLimit /\ qhpc = "returned") =>
           qStatus = <<StatusInternalServerError>>
    /\ (qBody \in 0..BodyLimit /\ qjpc \notin {"none", "token", "body"}) =>
           qErr # ErrReadingRequest
    /\ (qBody \in 0..BodyLimit /\ qjpc \notin {"none", "token", "body", "do"}
          /\ qErr # ErrAuthentication) => qForwarded = qBody

\* C18 witness: a body of exactly the limit was forwarded whole and the
\* client has the upstream's 200.
C18_LimitBodyForwarded ==
    /\ qBody = BodyLimit
    /\ qForwarded = BodyLimit
    /\ qhpc = "returned"
    /\ qStatus = <<StatusOK>>

\* the outcomes after which the claim allows another attempt: a transport
\* error, or a status that is 5xx, 429 or 408
C19_Retriable(o) ==
    \/ o = TransportError
    \/ o \in 500..599
    \/ o = 429
    \/ o = 408

\* C19: the upstream is called at most 3 times; an attempt follows only an
\* attempt that ended in a retriable outcome; the first other outcome is
\* returned at once; after the third attempt the last outcome is returned,
\* and when it is a status the client served by the job receives it.
C19_RetryLoop ==
    /\ Len(qOutcomes) <= 3
    /\ \A i \in 1..(Len(qOutcomes) - 1) : C19_Retriable(qOutcomes[i])
    /\ (qOutcomes # <<>> /\ ~C19_Retriable(qOutcomes[Len(qOutcomes)])) =>
           qResp = qOutcomes[Len(qOutcomes)]
    /\ Len(qOutcomes) = 3 => qResp = qOutcomes[3]
    /\ qResp # NoOutcome =>
           /\ qResp = qOutcomes[Len(qOutcomes)]
           /\ Len(qOutcomes) = 3 \/ ~C19_Retriable(qResp)
    /\ (qhpc = "returned" /\ qResp \notin {NoOutcome, TransportError}) =>
           qStatus = <<qResp>>

\* C19 witness: three attempts ended in three different retriable statuses
\* and the client has received the status of the last one.
C19_ThreeRetriableStatuses ==
    /\ qOutcomes = <<StatusServiceUnavailable, StatusTooManyRequests,
                     StatusRequestTimeout>>
    /\ qhpc = "returned"
    /\ qStatus = <<StatusRequestTimeout>>

\* C20: once the request's context is done, the upstream attempt in flight
\* ends aborted (in an error), and no retry sleep and no upstream attempt is
\* begun.
C20_CancelStopsRetries ==
    [][(qCtxDone /\ qhpc # "returned") =>
         /\ ~(qjpc # "inflight" /\ qjpc' = "inflight")
         /\ ~(qjpc # "sleep" /\ qjpc' = "sleep")
         /\ (qjpc = "inflight" /\ qjpc' # "inflight") =>
                qOutcomes' = Append(qOutcomes, TransportError)]_vars

(***************************************************************************)
(* The token manager: claims C21 to C24, C26 and C28.                      *)
(***************************************************************************)
\* caller c leaves the checks of ensureValidToken in this step
TokenCheckStep(c) == tpc[c] = "check" /\ tpc'[c] # "check"

\* expires_at - now <= max(300, refresh_in/5), the division taken exactly
WithinThreshold == cfgExp - tNow <= 300 \/ 5 * (cfgExp - tNow) <= cfgRin

\* C21 as stated: in every token state, the checks of ensureValidToken call
\* refreshToken if and only if expires_at - now <= max(300, refresh_in/5).
C21_RefreshIffWithinThreshold ==
    [][\A c \in TokenCallers :
           TokenCheckStep(c) => (tpc'[c] = "refresh" <=> WithinThreshold)]_vars

\* C21 amended: the same, in every state with a Copilot token stored; with
\* none stored ensureValidToken calls authenticate.
C21_RefreshIffWithinThresholdOfToken ==
    [][\A c \in TokenCallers :
           TokenCheckStep(c) =>
               IF cfgTok = EmptyToken THEN tpc'[c] = "auth"
               ELSE tpc'[c] = "refresh" <=> WithinThreshold]_vars

\* a call refreshes a token with more than 300 s left, by the 20% rule
C21_RefreshedByTwentyPercentRule ==
    \E c \in TokenCallers :
        /\ tpc[c] = "refresh"
        /\ cfgExp - tNow > 300
        /\ cfgRin = 1809

\* C22: at most one exchange is in flight at any instant, and a caller whose
\* call returned success after a refresh reads, for its request, the token
\* that refresh installed or one installed since.
C22_OneRefreshAndTokenObserved ==
    /\ Cardinality({c \in TokenCallers :
                       tpc[c] \in {"exchange", "authExchange"}}) <= 1
    /\ \A c \in TokenCallers :
           tpc[c] = "used" /\ tInstalled[c] # EmptyToken =>
               tseen[c] # TornToken /\ tseen[c] >= tInstalled[c]

\* caller c has returned success from a call whose refresh installed the
\* current token, answered with expires_at = now+1500, refresh_in = 1500
RefreshedFresh(c) ==
    /\ tpc[c] \in {"returned", "used"}
    /\ tret[c] = "ok"
    /\ texch[c] >= 1
    /\ tInstalled[c] = cfgTok
    /\ cfgExp - tNow = 1500
    /\ cfgRin = 1500

\* C23: after a call that refreshed a token inside the threshold and got a
\* fresh one, the next call returns success at its checks: it sends no
\* exchange and changes neither the token state nor the file.
C23_SecondCallIsNoOp ==
    [][\A c, d \in TokenCallers :
           c # d /\ RefreshedFresh(c) /\ TokenCheckStep(d) =>
               /\ tpc'[d] = "returned"
               /\ tret'[d] = "ok"
               /\ texch'[d] = 0
               /\ tInstalled'[d] = EmptyToken
               /\ <<cfgTok, cfgGh, cfgExp, cfgRin, saved, issued>>' =
                      <<cfgTok, cfgGh, cfgExp, cfgRin, saved, issued>>]_vars

\* two calls have returned success with one token installed between them
C23_OneRefreshInTwoCalls ==
    \E c, d \in TokenCallers :
        /\ c # d
        /\ RefreshedFresh(c)
        /\ tpc[d] = "returned"
        /\ tret[d] = "ok"
        /\ texch[d] = 0
        /\ issued = LoadedToken + 1

\* C24: when ensureValidToken returns success from a call that changed a
\* token field, the configuration file holds the token state of that moment.
C24_PersistedBeforeSuccess ==
    [][\A c \in TokenCallers :
           /\ tpc[c] # "returned"
           /\ tpc'[c] = "returned"
           /\ tret'[c] = "ok"
           /\ dirty[c]
           => saved' = [tok |-> cfgTok', gh |-> cfgGh', exp |-> cfgExp',
                        rin |-> cfgRin']]_vars

\* C26: authenticate returns success at once, with no server contacted and
\* no field changed, whenever a Copilot token is stored and
\* expires_at - now >= 60; with less than 60 s it starts the device flow.
C26_ValidForSixtySeconds ==
    [][\A c \in TokenCallers :
           tpc[c] = "auth" /\ tpc'[c] # "auth" =>
               IF cfgTok # EmptyToken /\ cfgExp - tNow >= 60
               THEN /\ tpc'[c] = "returned"
                    /\ tret'[c] = "ok"
                    /\ <<cfgTok, cfgGh, cfgExp, cfgRin, saved, issued>>' =
                           <<cfgTok, cfgGh, cfgExp, cfgRin, saved, issued>>
               ELSE tpc'[c] = "device"]_vars

\* C28: refreshToken makes at most 3 attempts, and a refresh that has failed
\* 3 times has waited 2 s, 8 s and 18 s, the delays 2 * n * n of n = 1, 2, 3.
C28_DelaysTwoEightEighteen ==
    [][\A c \in TokenCallers :
           /\ texch'[c] <= 3
           /\ tpc[c] = "exchange" /\ tpc'[c] = "auth" =>
                  tsleeps[c] = <<2, 8, 18>>]_vars

(***************************************************************************)
(* The auth service: claims C25, C29 and C30.                              *)
(***************************************************************************)
\* the token fields are those of the call's start
SvcTokenUntouched ==
    /\ sTok = sCfg0.tok
    /\ sExp = sCfg0.exp
    /\ sRin = sCfg0.rin

\* C25: a refresh entered with no GitHub token stored returns an error at
\* once; no exchange is ever sent without a GitHub token, and copilot_token,
\* expires_at and refresh_in stay as they were.
C25_NoGitHubTokenNoRefresh ==
    /\ sExch > 0 => sGh
    /\ spc = "loop" => sGh
    /\ ~sGh /\ spc = "done" /\ sOp = "RefreshTokenWithContext" =>
           sRet = "err" /\ sExch = 0 /\ SvcTokenUntouched /\ sSaved = sCfg0

\* a refresh has returned an error for the lack of a GitHub token, with a
\* Copilot token stored
C25_RefusedWithoutGitHubToken ==
    /\ sOp = "RefreshTokenWithContext"
    /\ spc = "done"
    /\ sRet = "err"
    /\ ~sGh
    /\ sTok = LoadedToken

\* C29: a call of RefreshTokenWithContext whose context is cancelled returns
\* an error: made with a context cancelled already it never returns
\* success, and a cancellation during a back-off wait ends the wait with an
\* error.
C29_CancelledNeverSucceeds ==
    [][/\ sCtxAtCall /\ spc' = "done" => sRet' = "err"
       /\ spc = "backoff" /\ sCtx /\ ~sTimer /\ spc' # "backoff" =>
              spc' = "done" /\ sRet' = "err"]_vars

\* C30: EnsureValidToken returns an error with no Copilot token stored and
\* success without a change with more than 300 s left; otherwise it enters
\* the refresh and returns its result, an error when no GitHub token is
\* stored.
C30_EnsureValidToken ==
    sOp = "EnsureValidToken" /\ spc = "done" =>
        IF sCfg0.tok = EmptyToken
        THEN sRet = "err" /\ sExch = 0 /\ SvcCfg = sCfg0 /\ sSaved = sCfg0
        ELSE IF sCfg0.exp > StartTime + 300
        THEN sRet = "ok" /\ sExch = 0 /\ SvcCfg = sCfg0 /\ sSaved = sCfg0
        ELSE /\ ~sCfg0.gh => sRet = "err" /\ sExch = 0 /\ SvcCfg = sCfg0
             /\ sCfg0.gh => sExch >= 1
             /\ sRet = "ok" <=> sSaved = SvcCfg /\ sTok # sCfg0.tok

\* EnsureValidToken has refreshed a token with exactly 300 s left
C30_RefreshedAtFiveMinutes ==
    /\ sOp = "EnsureValidToken"
    /\ spc = "done"
    /\ sRet = "ok"
    /\ sCfg0.exp = StartTime + 300
    /\ sTok # sCfg0.tok

(***************************************************************************)
(* The polling loop: claim C27.                                            *)
(***************************************************************************)
\* C27: the polling loop ends, after at most 120 polls.  An answer of
\* authorization_pending leads to the next poll, the first answer with
\* another error code ends the loop with an error, the first answer with an
\* access token ends it with the token, and the loop returns the timeout
\* error when 120 polls have not ended it.
C27_PollingTerminates ==
    /\ [](pPolls <= 120)
    /\ [](pRet = "timed out" => pPolls = 120)
    /\ [][ppc = "post" /\ ppc' # "post" =>
              /\ pAnswer' = "authorization_pending" =>
                     ppc' = "sleep" /\ pRet' = "none"
              /\ pAnswer' \in {"slow_down", "access_denied"} =>
                     ppc' = "done" /\ pRet' = "error"
              /\ pAnswer' = "access_token" =>
                     ppc' = "done" /\ pRet' = "token"]_vars
    /\ [][ppc = "sleep" /\ pPolls = 120 /\ ppc' # "sleep" =>
              ppc' = "done" /\ pRet' = "timed out"]_vars
    /\ <>(ppc = "done")

\* the loop has timed out after 120 polls, the last one answered with
\* authorization_pending
C27_TimedOutAfter120 ==
    /\ ppc = "done"
    /\ pRet = "timed out"
    /\ pPolls = 120
    /\ pAnswer = "authorization_pending"

(***************************************************************************)
(* The configuration store: claims C31 and C32.                            *)
(***************************************************************************)
\* C31: in a configuration that was loaded, every timeout is at least 1 and
\* at most 3600, and the fields the file does not hold have the defaults
\* 300/30/300/120/300/30/30/10/10/90.
C31_TimeoutsInRange ==
    cfgpc = "loaded" /\ ~cErr =>
        /\ \A f \in TimeoutFields :
               cMem.timeouts[f] >= 1 /\ cMem.timeouts[f] <= 3600
        /\ LET d == [http_client |-> 300, server_read |-> 30,
                     server_write |-> 300, server_idle |-> 120,
                     proxy_context |-> 300, circuit_breaker |-> 30,
                     keep_alive |-> 30, tls_handshake |-> 10,
                     dial_timeout |-> 10, idle_conn_timeout |-> 90]
           IN \A f \in TimeoutFields :
                  cFile.timeouts[f] = 0 => cMem.timeouts[f] = d[f]

C33_FlushAfterEveryChunk ==
    rCT = "text/event-stream" /\ rUnderFlush =>
        /\ rMode \notin {"copy", "copyBuffer"}
        /\ \A i \in 1..Len(rLog) :
               rLog[i][1] = "write" =>
                   /\ rLog[i][2] <= 2
                   /\ i < Len(rLog)
                   /\ rLog[i + 1] = <<"flush">>

(***************************************************************************)
(* The request fingerprint: claim C34.                                     *)
(***************************************************************************)
\* C34: two requests with the same method, URL and body have the same key,
\* and two requests that differ in one of them have different keys.
C34_KeyIsInjective ==
    kpc = "two" =>
        /\ kFirst = kSecond => key1 = key2
        /\ kFirst # kSecond => key1 # key2

(***************************************************************************)
(* C35: a chat request that reached the upstream call notifies the circuit *)
(* breaker exactly once, after its last attempt: onFailure for a transport *)
(* error or a final status >= 500, onSuccess for a final status < 500 (429 *)
(* and 408 too).  The outcomes of the attempts that were retried are not   *)
(* reported, and a request that failed before the upstream call reports    *)
(* nothing.                                                                *)
(***************************************************************************)
\* the outcome of the last attempt made so far
LastOutcome == qOutcomes[Len(qOutcomes)]

\* makeRequestWithRetry has returned and the job is past the notification
PastNotify == qjpc \in {"relay", "copy", "finished"} /\ qOutcomes # <<>>

C35_NotifiedOnceAfterRetries ==
    IF PastNotify
    THEN qNotes = <<IF LastOutcome = TransportError \/ LastOutcome >= 500
                    THEN "onFailure" ELSE "onSuccess">>
    ELSE qNotes = <<>>

\* a request answered 503, 503 and then 429 has reported one success
C35_RetriedThenTooManyRequests ==
    /\ PastNotify
    /\ qOutcomes = <<StatusServiceUnavailable, StatusServiceUnavailable,
                     StatusTooManyRequests>>
    /\ qNotes = <<"onSuccess">>

(***************************************************************************)
(* C38: every response makeRequestWithRetry returns has a body that has    *)
(* not been closed, whatever the outcomes of the attempts were.            *)
(***************************************************************************)
\* makeRequestWithRetry returned a response (no error)
ResponseReturned == qResp # NoOutcome /\ qResp # TransportError

\* resp.Body.Close() has run on the response that was returned: it runs on
\* every response of a retriable status, before the test of the last attempt
ReturnedBodyClosed == ResponseReturned /\ isRetriableError(qResp)

C38_ReturnedBodyOpen == ResponseReturned => ~ReturnedBodyClosed

(***************************************************************************)
(* C36: every read and write of the token fields on the request path is    *)
(* made with tokenMu held, so no request reads cfg.CopilotToken for its    *)
(* Authorization header while the refresh of another request is writing    *)
(* the token fields.                                                       *)
(***************************************************************************)
\* caller d holds tokenMu and is about to assign the token fields
RefreshModifying(d) ==
    tokenMu = d /\ tpc[d] \in {"exchange", "authExchange"}

\* caller c reads cfg.CopilotToken for its Authorization header
HeaderRead(c) == tpc[c] = "returned" /\ tpc'[c] = "used"

C36_HeaderReadUnderMutex ==
    [][\A c \in TokenCallers :
           HeaderRead(c) =>
               /\ tokenMu = c
               /\ \A d \in TokenCallers \ {c} : ~RefreshModifying(d)]_vars

\* the same without the demand on the reader: no header is read while
\* another caller's refresh is writing
C36_NoHeaderReadDuringRefresh ==
    [][\A c \in TokenCallers :
           HeaderRead(c) =>
               \A d \in TokenCallers \ {c} : ~RefreshModifying(d)]_vars

(***************************************************************************)
(* C39: when authenticate returns an error, none of the token fields in    *)
(* memory (GitHubToken, CopilotToken, ExpiresAt, RefreshIn) differs from   *)
(* its value before the call.                                              *)
(***************************************************************************)
\* authenticate, entered by caller c, returns an error in this step
AuthenticateFails(c) ==
    /\ tpc[c] \in {"device", "authExchange", "authSave"}
    /\ tpc'[c] = "returned"
    /\ tret'[c] = "err"

C39_FailedAuthenticateChangesNothing ==
    [][\A c \in TokenCallers :
           AuthenticateFails(c) =>
               [tok |-> cfgTok', gh |-> cfgGh', exp |-> cfgExp',
                rin |-> cfgRin'] = tBefore]_vars

(***************************************************************************)
(* C40: the models cache is written at most once: models.dev is fetched at *)
(* most once in any run of /v1/models requests, whether the fetch succeeds *)
(* or the default catalog is cached in its place, the cached list never    *)
(* changes afterwards, and every request that ends after the cache was     *)
(* written returns the cached list.                                        *)
(***************************************************************************)
\* once written, cachedModels and modelsLoaded stay as they are and no
\* fetch is made
ModelsCacheStable ==
    CacheHit => /\ cachedModels' = cachedModels
                /\ modelsLoaded' = modelsLoaded
                /\ fetchCount' = fetchCount

\* modelsHandler of request c ends in this step
ModelsRequestEnds(c) ==
    cpc[c] = "returned" /\ ckey[c] = ModelsKey /\ cpc'[c] \in {"done", "hPanic"}

\* the part about the cache alone: one fetch, one write
ModelsCacheWrittenOnce == [][ModelsCacheStable /\ fetchCount' <= 1]_vars

C40_OneFetchAndCachedListReturned ==
    [][/\ ModelsCacheStable
       /\ fetchCount' <= 1
       /\ \A c \in Callers :
              ModelsRequestEnds(c) =>
                  /\ CacheHit
                  /\ ret[c] = cachedModels
                  /\ cpc'[c] = "done"]_vars

(***************************************************************************)
(* C37: the handler of an admitted chat request returns no later than the  *)
(* expiry of its proxy context, with the worker's answer or with a 408,    *)
(* whatever the pool is doing: once the context has expired the handler is *)
(* never held up in Submit.                                                *)
(***************************************************************************)
\* the handler of job j is in  wp.jobQueue <- job  and the send cannot go on:
\* the queue is full and no worker is at its select to take a job from it
BlockedInSubmit(j) ==
    /\ jst[j] = "submit"
    /\ ~HasRoom(poolQueue)
    /\ \A w \in PoolWorkers : wpc[w] # "select"

C37_ReturnsByExpiry ==
    \A j \in Jobs :
        (hWatch = j /\ hRet = "none") => ~BlockedInSubmit(j)

\* the same held up for good: the pool has stopped, no worker is left to
\* take a job from the full queue
C37_NeverStuckAfterStop ==
    \A j \in Jobs :
        (hWatch = j /\ hRet = "none" /\ stopPc = "returned")
            => ~BlockedInSubmit(j)

====
